---- MODULE Spec2Model ----
(***************************************************************************)
(* Dice roll / combat resolution core of dungeonDice.                      *)
(*                                                                         *)
(*   core/dice.py       DiceFace, Dice (balance model, roll, xp)           *)
(*   core/character.py  CharacterStats.apply_trait, Character.roll_die     *)
(*   game/combat.py     CombatSystem.player_turn / enemy_turn              *)
(*   game/game_instance.py, ui/text_ui.py                                  *)
(*                      handle_room, handle_combat_turn, skip turn, flee   *)
(*   game/dungeon.py    generate_floor, the enemies of a room, navigation  *)
(*   enemies/ai.py      decide_action of the five behaviors, and           *)
(*                      EnemyAI.get_behavior with its two setters          *)
(*                                                                         *)
(* Methods are operators from the object before the call (and the values   *)
(* drawn from the random source) to the object after it and the value      *)
(* returned; one action per public operation applies them.                 *)
(*                                                                         *)
(* Not part of the state: Character.active_faces and CombatLog.entries,     *)
(* two append-only histories that no modelled operation reads.             *)
(*                                                                         *)
(* Floats: every float of the modelled code is a ratio of small integers   *)
(* (severity = |b| / (2*size), multipliers 1.5 / 0.8 / 1.0, crit_damage),  *)
(* so it is kept as an exact fraction [num, den]; int(x) is truncation     *)
(* toward zero.  random.random() lies in [0, 1): the test `random() < p`   *)
(* can succeed iff p > 0 and can fail iff p < 1.                           *)
(***************************************************************************)
EXTENDS Integers, Sequences, FiniteSets, TLC

VARIABLES
    die,        \* the Dice object under test (core/dice.py)
    op,         \* the last operation called and its arguments
    ret,        \* what the last Dice operation returned
    n_rolled,   \* history: number of roll() calls that returned a face
    n_double,   \* history: how many of those took the double-roll path
    player,     \* the Character in combat: stats, dice_set, level and xp
    enemies,    \* the list of Enemy objects handed to player_turn
    combat_result, \* the CombatResult the last combat operation returned
    ai,            \* the BossBehavior object, and the last decide_action call:
                   \* its behavior, arguments and returned decision
    state,         \* GameState: in_combat, game_over, the inventory's gold and
                   \* the enemies of the current room
    events,        \* what the last handler did, in the order it did it
    enemy_ai       \* the EnemyAI object's two maps, and the last call made on it

vars == <<die, op, ret, n_rolled, n_double, player, enemies, combat_result,
          state, events, ai, enemy_ai>>

combat_vars == <<player, enemies, combat_result>>

game_vars == <<state, events>>

ai_vars == <<ai, enemy_ai>>


----------------------------------------------------------------------------
(* Bounds of the exploration *)

MaxSize == 2          \* die capacities explored: 1..MaxSize
MaxInitFaces == 3     \* longest face list handed to the constructor
MaxCooldown == 2      \* largest initial cooldown
MaxEditRolls == 1     \* roll() calls that return a face while the die is edited
MaxRolls == 50        \* roll() calls that return a face in a rolling session
MaxDouble == 1        \* double rolls in a rolling session
MaxTurnRolls == 1     \* player rolls that return a face in a combat session
MaxDicePerType == 2   \* dice addressed per dice type
StartMaxHealth == 20  \* the player's max_health when the session starts
LowHealth == 1        \* the health of a player who starts the session wounded
LowDamage == 1        \* the physical_damage of a weakened player
MaxTurns == 3         \* decide_action calls a boss counts
MaxEnemyDice == 2     \* dice in the enemy_dice list of a decide_action call
MaxRounds == 1        \* handle_combat_turn calls in a fight
NearLevelXp == 90     \* the xp of a player one floor-1 reward short of level 2
MaxXpLevel == 3       \* the level up to which add_xp is called on a die
MaxSets == 1          \* set_custom_behavior / set_enemy_type_behavior calls that take effect

----------------------------------------------------------------------------
(* Arithmetic helpers *)

Abs(x) == IF x < 0 THEN -x ELSE x

Min(a, b) == IF a < b THEN a ELSE b

Max(a, b) == IF a > b THEN a ELSE b

\* int(n / d) for d > 0: Python's int() truncates toward zero
TruncDiv(n, d) == IF n >= 0 THEN n \div d ELSE -((-n) \div d)

\* math.floor(n / d) for d > 0
FloorDiv(n, d) == n \div d

Frac(n, d) == [num |-> n, den |-> d]

\* min(1.0, n / d) for n >= 0, d > 0
MinOne(n, d) == IF n >= d THEN Frac(1, 1) ELSE Frac(n, d)

FracEq(a, b) == a.num * b.den = b.num * a.den

FracLt(a, b) == a.num * b.den < b.num * a.den

\* the outcomes of `random.random() < p`
RandomBelow(p) == {t \in BOOLEAN : (t => p.num > 0) /\ (~t => p.num < p.den)}

RECURSIVE SumValues(_)
SumValues(fs) == IF fs = <<>> THEN 0 ELSE Head(fs).value + SumValues(Tail(fs))

----------------------------------------------------------------------------
(* DiceFace *)

DiceFace(n, v, c) == [name |-> n, value |-> v, category |-> c]

\* Python's None where a face is expected
None == DiceFace("", 0, "NONE")

FaceCatalogue ==
    { DiceFace("Strike", 1, "COMBAT"),
      DiceFace("Heavy Strike", 2, "COMBAT"),
      DiceFace("Quick Strike", 1, "COMBAT"),
      DiceFace("Block", -1, "COMBAT"),
      DiceFace("Block", -2, "COMBAT"),
      DiceFace("Taunt", 0, "EFFECT"),
      DiceFace("Minor Heal", 1, "EFFECT"),
      DiceFace("Major Heal", 2, "EFFECT"),
      DiceFace("Poison Blade", 0, "EFFECT"),
      DiceFace("Strength", 2, "TRAIT"),
      DiceFace("Vitality", 1, "TRAIT"),
      DiceFace("Vitality", -1, "TRAIT"),
      DiceFace("Weakness", -1, "TRAIT"),
      DiceFace("Perception", 1, "UTILITY"),
      DiceFace("Reroll", 0, "META") }

\* the faces the face-editing operations are exercised with
DieFaces ==
    { f \in FaceCatalogue : f.name \in {"Heavy Strike", "Strike", "Block"} }

FaceLists(n) == UNION {[1..k -> DieFaces] : k \in 0..n}

----------------------------------------------------------------------------
(* Dice *)

Msg(t, k, a, b) == [text |-> t, k |-> k, roll1 |-> a, roll2 |-> b]

NoMsg == Msg("", 0, "", "")

\* _calculate_balance that divides by size instead of size * 2
CalculateBalance_BySize(d) ==
    LET b == SumValues(d.faces) IN
    IF b = 0
    THEN [d EXCEPT !.balance_value = b,
                   !.imbalance_effect = "NONE",
                   !.imbalance_severity = Frac(0, 1)]
    ELSE IF b < 0
    THEN [d EXCEPT !.balance_value = b,
                   !.imbalance_effect = "UNSTABLE",
                   !.imbalance_severity = MinOne(Abs(b), d.size)]
    ELSE [d EXCEPT !.balance_value = b,
                   !.imbalance_effect = "OVERLOADED",
                   !.imbalance_severity = MinOne(b, d.size)]

\* Dice._calculate_balance
CalculateBalance(d) ==
    LET b == SumValues(d.faces) IN
    IF b = 0
    THEN [d EXCEPT !.balance_value = b,
                   !.imbalance_effect = "NONE",
                   !.imbalance_severity = Frac(0, 1)]
    ELSE IF b < 0
    THEN [d EXCEPT !.balance_value = b,
                   !.imbalance_effect = "UNSTABLE",
                   !.imbalance_severity = MinOne(Abs(b), d.size * 2)]
    ELSE [d EXCEPT !.balance_value = b,
                   !.imbalance_effect = "OVERLOADED",
                   !.imbalance_severity = MinOne(b, d.size * 2)]

\* the dataclass field defaults of Dice, with the given constructor arguments
DiceFields(size, faces, cooldown) ==
    [size |-> size, faces |-> faces,
     level |-> 1, xp |-> 0, xp_to_next_level |-> 100,
     cooldown |-> cooldown,
     balance_value |-> 0, imbalance_effect |-> "NONE",
     imbalance_severity |-> Frac(0, 1)]

\* Dice(...) followed by __post_init__
NewDice(size, faces, cooldown) ==
    LET d == DiceFields(size, faces, cooldown) IN
    IF d.faces # <<>> THEN CalculateBalance(d) ELSE d

RetOf(d, ok, face, message, effects) ==
    [die |-> d, ok |-> ok, face |-> face, message |-> message, effects |-> effects]

\* Dice.add_face
AddFace(d, face) ==
    IF Len(d.faces) >= d.size
    THEN RetOf(d, FALSE, None, NoMsg, <<>>)
    ELSE RetOf(CalculateBalance([d EXCEPT !.faces = Append(@, face)]),
               TRUE, None, NoMsg, <<>>)

\* a pop that takes the first element whatever the index
Pop_First(s, index) == SubSeq(s, 2, Len(s))

\* list.pop(index) for 0 <= index < len
Pop(s, index) == SubSeq(s, 1, index) \o SubSeq(s, index + 2, Len(s))

\* remove_face that forgets to recompute the balance
RemoveFace_NoRecalc(d, index) ==
    IF 0 <= index /\ index < Len(d.faces)
    THEN RetOf([d EXCEPT !.faces = Pop(@, index)],
               TRUE, d.faces[index + 1], NoMsg, <<>>)
    ELSE RetOf(d, FALSE, None, NoMsg, <<>>)

\* Dice.remove_face (index is 0-based, as in the source)
RemoveFace(d, index) ==
    IF 0 <= index /\ index < Len(d.faces)
    THEN RetOf(CalculateBalance([d EXCEPT !.faces = Pop(@, index)]),
               TRUE, d.faces[index + 1], NoMsg, <<>>)
    ELSE RetOf(d, FALSE, None, NoMsg, <<>>)

\* Dice.replace_face
ReplaceFace(d, index, new_face) ==
    IF 0 <= index /\ index < Len(d.faces)
    THEN RetOf(CalculateBalance([d EXCEPT !.faces[index + 1] = new_face]),
               TRUE, d.faces[index + 1], NoMsg, <<>>)
    ELSE RetOf(d, FALSE, None, NoMsg, <<>>)

\* level_up that resets xp to 0 instead of subtracting the threshold
LevelUp_ResetXp(d) ==
    [d EXCEPT !.level = @ + 1,
              !.xp = 0,
              !.xp_to_next_level = TruncDiv(@ * 3, 2)]

\* Dice.level_up
LevelUp(d) ==
    [d EXCEPT !.level = @ + 1,
              !.xp = @ - d.xp_to_next_level,
              !.xp_to_next_level = TruncDiv(@ * 3, 2)]

\* Dice.add_xp
AddXp(d, amount) ==
    LET d1 == [d EXCEPT !.xp = @ + amount] IN
    IF d1.xp >= d1.xp_to_next_level THEN LevelUp(d1) ELSE d1

\* roll() that reports the cooldown without consuming a turn of it
Roll_KeepCooldown(d, unstable, c1, c2, c) ==
    IF d.faces = <<>>
    THEN RetOf(d, FALSE, None, Msg("Die has no faces!", 0, "", ""), <<>>)
    ELSE IF d.cooldown > 0
    THEN RetOf(d, FALSE, None, Msg("on cooldown", d.cooldown, "", ""), <<>>)
    ELSE IF d.imbalance_effect = "UNSTABLE" /\ unstable
    THEN LET roll1 == d.faces[c1]
             roll2 == d.faces[c2]
             result == IF roll1.value < roll2.value THEN roll1 ELSE roll2
         IN RetOf(d, TRUE, result, Msg("UNSTABLE", 0, roll1.name, roll2.name),
                  <<"Unstable: Double Roll">>)
    ELSE RetOf(AddXp(d, 10), TRUE, d.faces[c], Msg("Normal roll.", 0, "", ""), <<>>)

\* roll() that awards the xp before it looks at the faces
Roll_XpFirst(d, unstable, c1, c2, c) ==
    IF d.faces = <<>>
    THEN RetOf(AddXp(d, 10), FALSE, None, Msg("Die has no faces!", 0, "", ""), <<>>)
    ELSE IF d.cooldown > 0
    THEN LET d1 == [d EXCEPT !.cooldown = @ - 1] IN
         RetOf(d1, FALSE, None, Msg("on cooldown", d1.cooldown + 1, "", ""), <<>>)
    ELSE IF d.imbalance_effect = "UNSTABLE" /\ unstable
    THEN LET roll1 == d.faces[c1]
             roll2 == d.faces[c2]
             result == IF roll1.value < roll2.value THEN roll1 ELSE roll2
         IN RetOf(d, TRUE, result, Msg("UNSTABLE", 0, roll1.name, roll2.name),
                  <<"Unstable: Double Roll">>)
    ELSE RetOf(AddXp(d, 10), TRUE, d.faces[c], Msg("Normal roll.", 0, "", ""), <<>>)

\* roll() that awards 10 xp on the double-roll path too
Roll_DoubleXp(d, unstable, c1, c2, c) ==
    IF d.faces = <<>>
    THEN RetOf(d, FALSE, None, Msg("Die has no faces!", 0, "", ""), <<>>)
    ELSE IF d.cooldown > 0
    THEN LET d1 == [d EXCEPT !.cooldown = @ - 1] IN
         RetOf(d1, FALSE, None, Msg("on cooldown", d1.cooldown + 1, "", ""), <<>>)
    ELSE IF d.imbalance_effect = "UNSTABLE" /\ unstable
    THEN LET roll1 == d.faces[c1]
             roll2 == d.faces[c2]
             result == IF roll1.value < roll2.value THEN roll1 ELSE roll2
         IN RetOf(AddXp(d, 10), TRUE, result, Msg("UNSTABLE", 0, roll1.name, roll2.name),
                  <<"Unstable: Double Roll">>)
    ELSE RetOf(AddXp(d, 10), TRUE, d.faces[c], Msg("Normal roll.", 0, "", ""), <<>>)

\* a roll() that takes the double roll on any die out of balance
Roll_AnyImbalance(d, unstable, c1, c2, c) ==
    IF d.faces = <<>>
    THEN RetOf(d, FALSE, None, Msg("Die has no faces!", 0, "", ""), <<>>)
    ELSE IF d.cooldown > 0
    THEN LET d1 == [d EXCEPT !.cooldown = @ - 1] IN
         RetOf(d1, FALSE, None, Msg("on cooldown", d1.cooldown + 1, "", ""), <<>>)
    ELSE IF d.imbalance_effect # "NONE" /\ unstable
    THEN LET roll1 == d.faces[c1]
             roll2 == d.faces[c2]
             result == IF roll1.value < roll2.value THEN roll1 ELSE roll2
         IN RetOf(d, TRUE, result, Msg("UNSTABLE", 0, roll1.name, roll2.name),
                  <<"Unstable: Double Roll">>)
    ELSE RetOf(AddXp(d, 10), TRUE, d.faces[c], Msg("Normal roll.", 0, "", ""), <<>>)

\* a roll that takes two turns off the cooldown
Roll_CooldownByTwo(d, unstable, c1, c2, c) ==
    IF d.faces = <<>>
    THEN RetOf(d, FALSE, None, Msg("Die has no faces!", 0, "", ""), <<>>)
    ELSE IF d.cooldown > 0
    THEN LET d1 == [d EXCEPT !.cooldown = @ - 2] IN
         RetOf(d1, FALSE, None, Msg("on cooldown", d1.cooldown + 1, "", ""), <<>>)
    ELSE IF d.imbalance_effect = "UNSTABLE" /\ unstable
    THEN LET roll1 == d.faces[c1]
             roll2 == d.faces[c2]
             result == IF roll1.value < roll2.value THEN roll1 ELSE roll2
         IN RetOf(d, TRUE, result, Msg("UNSTABLE", 0, roll1.name, roll2.name),
                  <<"Unstable: Double Roll">>)
    ELSE RetOf(AddXp(d, 10), TRUE, d.faces[c], Msg("Normal roll.", 0, "", ""), <<>>)

\* Dice.roll; unstable is the outcome of `random.random() < severity`,
\* c1, c2 and c are the positions random.choice draws (1-based)
Roll(d, unstable, c1, c2, c) ==
    IF d.faces = <<>>
    THEN RetOf(d, FALSE, None, Msg("Die has no faces!", 0, "", ""), <<>>)
    ELSE IF d.cooldown > 0
    THEN LET d1 == [d EXCEPT !.cooldown = @ - 1] IN
         RetOf(d1, FALSE, None, Msg("on cooldown", d1.cooldown + 1, "", ""), <<>>)
    ELSE IF d.imbalance_effect = "UNSTABLE" /\ unstable
    THEN LET roll1 == d.faces[c1]
             roll2 == d.faces[c2]
             result == IF roll1.value < roll2.value THEN roll1 ELSE roll2
         IN RetOf(d, TRUE, result, Msg("UNSTABLE", 0, roll1.name, roll2.name),
                  <<"Unstable: Double Roll">>)
    ELSE RetOf(AddXp(d, 10), TRUE, d.faces[c], Msg("Normal roll.", 0, "", ""), <<>>)

\* the draws roll() can make on die d: the double roll draws c1 and c2, the
\* standard roll draws c (the positions a path does not draw are fixed at 1).
\* A die that is not UNSTABLE does not consult `random.random() < severity`;
\* unstable is then what the test would have given
RollDraws(d) ==
    LET n == Max(1, Len(d.faces))
        u == RandomBelow(d.imbalance_severity)
    IN IF d.imbalance_effect = "UNSTABLE"
       THEN { [unstable |-> TRUE, c1 |-> a, c2 |-> b, c |-> 1] :
                a \in {i \in 1..n : TRUE \in u}, b \in 1..n }
            \cup
            { [unstable |-> FALSE, c1 |-> 1, c2 |-> 1, c |-> k] :
                k \in {i \in 1..n : FALSE \in u} }
       ELSE { [unstable |-> x, c1 |-> 1, c2 |-> 1, c |-> k] :
                x \in u \cup {FALSE}, k \in 1..n }

\* DiceFace.to_dict / DiceFace.from_dict: the category goes through its name
FaceToDict(f) == [name |-> f.name, value |-> f.value, category |-> f.category]

FaceFromDict(data) == DiceFace(data.name, data.value, data.category)

\* Dice.to_dict
ToDict(d) ==
    [size |-> d.size,
     faces |-> [i \in 1..Len(d.faces) |-> FaceToDict(d.faces[i])],
     level |-> d.level, xp |-> d.xp, xp_to_next_level |-> d.xp_to_next_level,
     cooldown |-> d.cooldown, balance_value |-> d.balance_value,
     imbalance_effect |-> d.imbalance_effect,
     imbalance_severity |-> d.imbalance_severity]

RECURSIVE AddFaces(_, _)
AddFaces(d, fs) ==
    IF fs = <<>> THEN d ELSE AddFaces(AddFace(d, Head(fs)).die, Tail(fs))

\* a from_dict that adds the faces to a new die and keeps nothing else
FromDict_FreshDie(data) ==
    AddFaces(DiceFields(data.size, <<>>, 0),
             [i \in 1..Len(data.faces) |-> FaceFromDict(data.faces[i])])

\* Dice.from_dict: the die is built without faces from the other keys, then
\* every face goes through add_face
FromDict(data) ==
    LET faces == [i \in 1..Len(data.faces) |-> FaceFromDict(data.faces[i])]
        d0 == [size |-> data.size, faces |-> <<>>,
               level |-> data.level, xp |-> data.xp,
               xp_to_next_level |-> data.xp_to_next_level,
               cooldown |-> data.cooldown,
               balance_value |-> data.balance_value,
               imbalance_effect |-> data.imbalance_effect,
               imbalance_severity |-> data.imbalance_severity]
    IN AddFaces(d0, faces)

----------------------------------------------------------------------------
(* Face names: the characters of each name, for Python's `in` on strings *)

Chars(n) ==
    CASE n = "Strike" -> <<"S","t","r","i","k","e">>
      [] n = "Heavy Strike" -> <<"H","e","a","v","y"," ","S","t","r","i","k","e">>
      [] n = "Quick Strike" -> <<"Q","u","i","c","k"," ","S","t","r","i","k","e">>
      [] n = "Block" -> <<"B","l","o","c","k">>
      [] n = "Minor Heal" -> <<"M","i","n","o","r"," ","H","e","a","l">>
      [] n = "Major Heal" -> <<"M","a","j","o","r"," ","H","e","a","l">>
      [] n = "Taunt" -> <<"T","a","u","n","t">>
      [] n = "Poison Blade" -> <<"P","o","i","s","o","n"," ","B","l","a","d","e">>
      [] n = "Bleeding Edge" -> <<"B","l","e","e","d","i","n","g"," ","E","d","g","e">>
      [] n = "Stunning Blow" -> <<"S","t","u","n","n","i","n","g"," ","B","l","o","w">>
      [] n = "Healing Poison" -> <<"H","e","a","l","i","n","g"," ","P","o","i","s","o","n">>
      [] n = "Strength" -> <<"S","t","r","e","n","g","t","h">>
      [] n = "Vitality" -> <<"V","i","t","a","l","i","t","y">>
      [] n = "Weakness" -> <<"W","e","a","k","n","e","s","s">>
      [] n = "Perception" -> <<"P","e","r","c","e","p","t","i","o","n">>
      [] n = "Reroll" -> <<"R","e","r","o","l","l">>
      [] n = "Ultimate Blast" -> <<"U","l","t","i","m","a","t","e"," ","B","l","a","s","t">>
      [] n = "Ultimate Roar" -> <<"U","l","t","i","m","a","t","e"," ","R","o","a","r">>
      [] n = "Basic Attack" -> <<"B","a","s","i","c"," ","A","t","t","a","c","k">>
      [] n = "Ultimate" -> <<"U","l","t","i","m","a","t","e">>
      [] n = "Attack" -> <<"A","t","t","a","c","k">>
      [] n = "Defense" -> <<"D","e","f","e","n","s","e">>
      [] n = "Heavy" -> <<"H","e","a","v","y">>
      [] n = "Quick" -> <<"Q","u","i","c","k">>
      [] n = "Heal" -> <<"H","e","a","l">>
      [] n = "Major" -> <<"M","a","j","o","r">>
      [] n = "Bleed" -> <<"B","l","e","e","d">>
      [] n = "Poison" -> <<"P","o","i","s","o","n">>
      [] n = "Stun" -> <<"S","t","u","n">>
      [] n = "Boss" -> <<"B","o","s","s">>
      [] n = "Lord" -> <<"L","o","r","d">>
      [] n = "King" -> <<"K","i","n","g">>
      [] n = "Grubnosh" -> <<"G","r","u","b","n","o","s","h">>
      [] n = "Bonecrusher" -> <<"B","o","n","e","c","r","u","s","h","e","r">>
      [] n = "Grimfang" -> <<"G","r","i","m","f","a","n","g">>
      [] n = "Flamescale" -> <<"F","l","a","m","e","s","c","a","l","e">>
      [] n = "Goblin" -> <<"G","o","b","l","i","n">>
      [] n = "Goblin King" -> <<"G","o","b","l","i","n"," ","K","i","n","g">>
      [] n = "Dark Lord" -> <<"D","a","r","k"," ","L","o","r","d">>
      [] n = "Orc Boss" -> <<"O","r","c"," ","B","o","s","s">>
      [] n = "Grubnosh the Goblin King" -> <<"G","r","u","b","n","o","s","h"," ","t","h","e"," ","G","o","b","l","i","n"," ","K","i","n","g">>
      [] n = "Bonecrusher the Skeleton Lord" -> <<"B","o","n","e","c","r","u","s","h","e","r"," ","t","h","e"," ","S","k","e","l","e","t","o","n"," ","L","o","r","d">>
      [] n = "Viking" -> <<"V","i","k","i","n","g">>
      [] OTHER -> <<>>

\* key in name
Contains(key, name) ==
    LET k == Chars(key)
        n == Chars(name)
    IN \E i \in 1..(Len(n) - Len(k) + 1) : SubSeq(n, i, i + Len(k) - 1) = k

\* name.lower() for the trait names of the catalogue
Lower(n) ==
    CASE n = "Strength" -> "strength"
      [] n = "Vitality" -> "vitality"
      [] n = "Weakness" -> "weakness"
      [] n = "Perception" -> "perception"
      [] OTHER -> n

----------------------------------------------------------------------------
(* CharacterStats and Character *)

\* the numeric fields of CharacterStats; dodge, crit_chance and crit_damage
\* are the floats 0.1, 0.05 and 1.5
DefaultStats ==
    [health |-> 100, max_health |-> 100, mana |-> 50, max_mana |-> 50,
     physical_damage |-> 10, magic_damage |-> 10, speed |-> 5,
     dodge |-> Frac(10, 100), crit_chance |-> Frac(5, 100),
     crit_damage |-> Frac(3, 2),
     status_effects |-> <<>>,
     passive_bonuses |-> <<>>]

\* the attributes hasattr(self, name.lower()) can find and add an int to
StatAttributes ==
    {"health", "max_health", "mana", "max_mana", "physical_damage",
     "magic_damage", "speed"}

\* value * 0.02 added to a float kept in hundredths
AddHundredths(f, v) == Frac(f.num * 100 + v * 2 * f.den, f.den * 100)

\* max(0, f)
FracMaxZero(f) == IF f.num < 0 THEN Frac(0, 1) ELSE f

\* int(max_health * percent / 100)
PercentOf(max_health, percent) == TruncDiv(max_health * percent, 100)

\* CharacterStats.apply_trait
ApplyTrait(st, name, value) ==
    IF name = "Strength"
    THEN [st EXCEPT !.physical_damage = @ + value]
    ELSE IF name = "Intelligence"
    THEN [st EXCEPT !.magic_damage = @ + value]
    ELSE IF name = "Vitality"
    THEN LET health_change == PercentOf(st.max_health, value * 10) IN
         [st EXCEPT !.max_health = @ + health_change,
                    !.health = @ + health_change]
    ELSE IF name = "Agility"
    THEN [st EXCEPT !.speed = @ + value,
                    !.dodge = AddHundredths(@, value)]
    ELSE IF name = "Weakness"
    THEN [st EXCEPT !.physical_damage = Max(1, @ + value)]
    ELSE IF name = "Frailty"
    THEN LET health_change == PercentOf(st.max_health, value * 10)
             new_max == Max(1, st.max_health + health_change)
         IN [st EXCEPT !.max_health = new_max,
                       !.health = Min(@, new_max)]
    ELSE IF name = "Slowness"
    THEN [st EXCEPT !.speed = Max(1, @ + value),
                    !.dodge = FracMaxZero(AddHundredths(@, value))]
    ELSE IF name = "Stupidity"
    THEN [st EXCEPT !.magic_damage = Max(1, @ + value)]
    ELSE IF Lower(name) \in StatAttributes
    THEN [st EXCEPT ![Lower(name)] = @ + value]
    ELSE [st EXCEPT !.passive_bonuses =
             [n \in (DOMAIN @) \cup {name} |-> IF n = name THEN value ELSE @[n]]]

DiceTypes == {"CHARACTER", "COMBAT", "ENCOUNTER", "SPECIAL", "FATE"}

\* DiceSet()
EmptyDiceSet == [t \in DiceTypes |-> <<>>]

\* Character(name, stats, dice_set)
NewCharacter(stats, dice_set) ==
    [stats |-> stats, dice_set |-> dice_set,
     level |-> 1, xp |-> 0, xp_to_next_level |-> 100]

\* DiceSet.get_dice_list
GetDiceList(dice_set, dice_type) ==
    IF dice_type \in DiceTypes THEN dice_set[dice_type] ELSE <<>>

\* what roll_die hands back: the character after the call, the rolled face
\* (None when there is none), the message, and what die.roll() returned
RollDieRet(p, face, message, rolled) ==
    [player |-> p, face |-> face, message |-> message, rolled |-> rolled]

\* roll_die that credits the die with xp for every attempt, face or not
RollDie_XpOnAttempt(p, dice_type, index, draw) ==
    LET dice_list == GetDiceList(p.dice_set, dice_type) IN
    IF index < 0 \/ index >= Len(dice_list)
    THEN RollDieRet(p, None, Msg("Invalid die selection", 0, "", ""),
                    RetOf(None, FALSE, None, NoMsg, <<>>))
    ELSE LET d == dice_list[index + 1]
             r == Roll(d, draw.unstable, draw.c1, draw.c2, draw.c)
             p1 == [p EXCEPT !.dice_set[dice_type][index + 1] = r.die]
             p0 == [p EXCEPT !.dice_set[dice_type][index + 1] = AddXp(r.die, 10)]
         IN IF r.face # None
            THEN LET p2 == IF r.face.category = "TRAIT"
                           THEN [p1 EXCEPT !.stats =
                                    ApplyTrait(@, r.face.name, r.face.value)]
                           ELSE p1
                 IN RollDieRet(p2, r.face, r.message, r)
            ELSE RollDieRet(p0, None, r.message, r)

\* roll_die that applies every face that is not a COMBAT or EFFECT face as
\* a trait
RollDie_ApplyAny(p, dice_type, index, draw) ==
    LET dice_list == GetDiceList(p.dice_set, dice_type) IN
    IF index < 0 \/ index >= Len(dice_list)
    THEN RollDieRet(p, None, Msg("Invalid die selection", 0, "", ""),
                    RetOf(None, FALSE, None, NoMsg, <<>>))
    ELSE LET d == dice_list[index + 1]
             r == Roll(d, draw.unstable, draw.c1, draw.c2, draw.c)
             p1 == [p EXCEPT !.dice_set[dice_type][index + 1] = r.die]
         IN IF r.face # None
            THEN LET p2 == IF r.face.category \notin {"COMBAT", "EFFECT"}
                           THEN [p1 EXCEPT !.stats =
                                    ApplyTrait(@, r.face.name, r.face.value)]
                           ELSE p1
                 IN RollDieRet(p2, r.face, r.message, r)
            ELSE RollDieRet(p1, None, r.message, r)

\* Character.roll_die; draw holds the random draws of die.roll()
RollDie(p, dice_type, index, draw) ==
    LET dice_list == GetDiceList(p.dice_set, dice_type) IN
    IF index < 0 \/ index >= Len(dice_list)
    THEN RollDieRet(p, None, Msg("Invalid die selection", 0, "", ""),
                    RetOf(None, FALSE, None, NoMsg, <<>>))
    ELSE LET d == dice_list[index + 1]
             r == Roll(d, draw.unstable, draw.c1, draw.c2, draw.c)
             p1 == [p EXCEPT !.dice_set[dice_type][index + 1] = r.die]
         IN IF r.face # None
            THEN LET p2 == IF r.face.category = "TRAIT"
                           THEN [p1 EXCEPT !.stats =
                                    ApplyTrait(@, r.face.name, r.face.value)]
                           ELSE p1
                 IN RollDieRet(p2, r.face, r.message, r)
            ELSE RollDieRet(p1, None, r.message, r)

\* the draws die.roll() can make inside roll_die
RollDieDraws(p, dice_type, index) ==
    LET dice_list == GetDiceList(p.dice_set, dice_type) IN
    IF index < 0 \/ index >= Len(dice_list)
    THEN {[unstable |-> FALSE, c1 |-> 1, c2 |-> 1, c |-> 1]}
    ELSE LET d == dice_list[index + 1] IN
         {r \in RollDraws(d) : r.unstable => d.imbalance_effect = "UNSTABLE"}

----------------------------------------------------------------------------
(* Enemy and CombatSystem *)

Enemy(name, health, max_health, damage, gold_reward, xp_reward) ==
    [name |-> name, health |-> health, max_health |-> max_health,
     damage |-> damage, gold_reward |-> gold_reward, xp_reward |-> xp_reward]

CombatResult(success, message, damage_dealt, healing_done, status_applied, target_defeated) ==
    [success |-> success, message |-> message, damage_dealt |-> damage_dealt,
     healing_done |-> healing_done, status_applied |-> status_applied,
     target_defeated |-> target_defeated]

NoResult == CombatResult(FALSE, NoMsg, 0, 0, "", FALSE)

\* what a turn hands back: the CombatResult and the objects after the call
TurnRet(p, es, res) == [player |-> p, enemies |-> es, result |-> res]

\* `not enemies or target_index < 0 or target_index >= len(enemies)`
InvalidTarget(es, target_index) ==
    es = <<>> \/ target_index < 0 \/ target_index >= Len(es)

\* the face player_turn resolves: roll_result, or None when it returns before
RolledFace(p, es, dice_type, dice_index, target_index, draw) ==
    IF InvalidTarget(es, target_index)
    THEN None
    ELSE RollDie(p, dice_type, dice_index, draw).face

\* the damage multiplier _handle_combat_face picks from the face name
DamageMultiplier(face_name) ==
    IF Contains("Heavy", face_name) THEN Frac(3, 2)
    ELSE IF Contains("Quick", face_name) THEN Frac(4, 5)
    ELSE Frac(1, 1)

\* CombatSystem._handle_combat_face; is_critical is the outcome of
\* `random.random() < player.stats.crit_chance`
HandleCombatFace(p, es, target_index, face_name, face_value, is_critical) ==
    LET base_damage == p.stats.physical_damage
        m == DamageMultiplier(face_name)
        damage0 == TruncDiv(base_damage * m.num, m.den) + face_value
        damage == IF is_critical
                  THEN TruncDiv(damage0 * p.stats.crit_damage.num,
                                p.stats.crit_damage.den)
                  ELSE damage0
        health1 == es[target_index + 1].health - damage
        target_defeated == health1 <= 0
        health2 == IF target_defeated THEN 0 ELSE health1
    IN TurnRet(p, [es EXCEPT ![target_index + 1].health = health2],
               CombatResult(TRUE,
                            Msg(IF is_critical THEN "CRITICAL HIT!" ELSE "deals",
                                damage, face_name, ""),
                            damage, 0, "", target_defeated))

\* _handle_healing that reports the nominal amount instead of the applied one
HandleHealing_Nominal(p, es, face_name, face_value) ==
    LET heal_amount == IF Contains("Major", face_name)
                       THEN 30 + face_value * 2
                       ELSE 15 + face_value
        new_health == Min(p.stats.health + heal_amount, p.stats.max_health)
    IN TurnRet([p EXCEPT !.stats.health = new_health], es,
               CombatResult(TRUE, Msg("restores", heal_amount, face_name, ""),
                            0, heal_amount, "", FALSE))

\* CombatSystem._handle_healing
HandleHealing(p, es, face_name, face_value) ==
    LET heal_amount == IF Contains("Major", face_name)
                       THEN 30 + face_value * 2
                       ELSE 15 + face_value
        old_health == p.stats.health
        new_health == Min(p.stats.health + heal_amount, p.stats.max_health)
        actual_heal == new_health - old_health
    IN TurnRet([p EXCEPT !.stats.health = new_health], es,
               CombatResult(TRUE, Msg("restores", actual_heal, face_name, ""),
                            0, actual_heal, "", FALSE))

\* _handle_status_effect that records the effect in the status-effect map of
\* the character, as CharacterStats.apply_status_effect would
HandleStatusEffect_Applied(p, es, effect, duration, face_name) ==
    TurnRet([p EXCEPT !.stats.status_effects =
                [n \in (DOMAIN @) \cup {effect} |->
                    IF n \in DOMAIN @ THEN Max(@[n], duration) ELSE duration]],
            es,
            CombatResult(TRUE, Msg("applies", duration, face_name, effect),
                         0, 0, effect, FALSE))

\* CombatSystem._handle_status_effect
HandleStatusEffect(p, es, effect, duration, face_name) ==
    TurnRet(p, es,
            CombatResult(TRUE, Msg("applies", duration, face_name, effect),
                         0, 0, effect, FALSE))

\* CombatSystem._handle_effect_face
HandleEffectFace(p, es, face_name, face_value) ==
    IF Contains("Heal", face_name) THEN HandleHealing(p, es, face_name, face_value)
    ELSE IF Contains("Bleed", face_name)
    THEN HandleStatusEffect(p, es, "Bleeding", 3, face_name)
    ELSE IF Contains("Poison", face_name)
    THEN HandleStatusEffect(p, es, "Poisoned", 3, face_name)
    ELSE IF Contains("Stun", face_name)
    THEN HandleStatusEffect(p, es, "Stunned", 1, face_name)
    ELSE TurnRet(p, es,
                 CombatResult(TRUE, Msg("Used effect", 0, face_name, ""),
                              0, 0, "", FALSE))

\* CombatSystem._process_player_action
ProcessPlayerAction(p, es, target_index, face, is_critical) ==
    IF face.category = "COMBAT"
    THEN HandleCombatFace(p, es, target_index, face.name, face.value, is_critical)
    ELSE IF face.category = "EFFECT"
    THEN HandleEffectFace(p, es, face.name, face.value)
    ELSE TurnRet(p, es,
                 CombatResult(TRUE, Msg("Used", 0, face.name, ""), 0, 0, "", FALSE))

\* player_turn that rolls the die before it looks at the target
PlayerTurn_RollFirst(p, es, dice_type, dice_index, target_index, draw, is_critical) ==
    LET r == RollDie(p, dice_type, dice_index, draw) IN
    IF InvalidTarget(es, target_index)
    THEN TurnRet(r.player, es, CombatResult(FALSE, Msg("Invalid target!", 0, "", ""),
                                            0, 0, "", FALSE))
    ELSE IF r.face = None
         THEN TurnRet(r.player, es, CombatResult(FALSE, r.message, 0, 0, "", FALSE))
         ELSE ProcessPlayerAction(r.player, es, target_index, r.face, is_critical)

\* CombatSystem.player_turn
PlayerTurn(p, es, dice_type, dice_index, target_index, draw, is_critical) ==
    IF InvalidTarget(es, target_index)
    THEN TurnRet(p, es, CombatResult(FALSE, Msg("Invalid target!", 0, "", ""),
                                     0, 0, "", FALSE))
    ELSE LET r == RollDie(p, dice_type, dice_index, draw) IN
         IF r.face = None
         THEN TurnRet(r.player, es, CombatResult(FALSE, r.message, 0, 0, "", FALSE))
         ELSE ProcessPlayerAction(r.player, es, target_index, r.face, is_critical)

\* the values int(enemy.damage * random.uniform(0.8, 1.2)) can take
EnemyDamages(damage) == TruncDiv(damage * 4, 5) .. TruncDiv(damage * 6, 5)

\* enemy_turn where a dodged attack still grazes the player for 1 health
EnemyTurn_DodgeGraze(e, p, damage, dodged) ==
    IF dodged
    THEN TurnRet([p EXCEPT !.stats.health = Max(0, @ - 1)], <<e>>,
                 CombatResult(FALSE, Msg("dodges", 0, "", ""), 0, 0, "", FALSE))
    ELSE LET health1 == p.stats.health - damage
             player_defeated == health1 <= 0
             health2 == IF player_defeated THEN 0 ELSE health1
         IN TurnRet([p EXCEPT !.stats.health = health2], <<e>>,
                    CombatResult(TRUE, Msg("attacks", damage, "", ""),
                                 damage, 0, "", player_defeated))

\* CombatSystem.enemy_turn; damage is the varied damage, dodged the outcome
\* of `random.random() < player.stats.dodge`
EnemyTurn(e, p, damage, dodged) ==
    IF dodged
    THEN TurnRet(p, <<e>>, CombatResult(FALSE, Msg("dodges", 0, "", ""),
                                        0, 0, "", FALSE))
    ELSE LET health1 == p.stats.health - damage
             player_defeated == health1 <= 0
             health2 == IF player_defeated THEN 0 ELSE health1
         IN TurnRet([p EXCEPT !.stats.health = health2], <<e>>,
                    CombatResult(TRUE, Msg("attacks", damage, "", ""),
                                 damage, 0, "", player_defeated))

----------------------------------------------------------------------------
(* GameState and GameInstance *)

\* GameState: the flags, the inventory's gold and the enemies of the current
\* room, on the second room (a combat room) of a first floor; rooms is the
\* room_type of each room of current_floor
GameState(in_combat, game_over, gold, room_enemies) ==
    [in_combat |-> in_combat, game_over |-> game_over, gold |-> gold,
     room_enemies |-> room_enemies,
     floor_level |-> 1, victory |-> FALSE,
     rooms |-> <<"REST", "COMBAT", "COMBAT", "COMBAT", "EXIT">>,
     current_room_index |-> 1]

\* the GameState of a new game, in a room without enemies
NewGameState == GameState(FALSE, FALSE, 0, <<>>)

\* Character.level_up
CharacterLevelUp(p) ==
    LET level == p.level + 1
        health_increase == level * 5
        st == p.stats
        st1 == [st EXCEPT !.max_health = @ + health_increase,
                          !.health = @ + health_increase,
                          !.max_mana = @ + level * 2,
                          !.mana = st.max_mana + level * 2,
                          !.physical_damage = @ + 1,
                          !.magic_damage = @ + 1,
                          !.speed = IF level % 3 = 0 THEN @ + 1 ELSE @]
    IN [p EXCEPT !.level = level,
                 !.xp = @ - p.xp_to_next_level,
                 !.xp_to_next_level = TruncDiv(@ * 3, 2),
                 !.stats = st1]

\* Character.add_xp
CharacterAddXp(p, amount) ==
    LET p1 == [p EXCEPT !.xp = @ + amount] IN
    IF p1.xp >= p1.xp_to_next_level THEN CharacterLevelUp(p1) ELSE p1

\* one thing a handler did: the player's turn, the removal of the enemy at
\* a roster index, its reward, the turn of the enemy at a roster index, or
\* the defeat of the player by that enemy
Event(kind, index, name) == [kind |-> kind, index |-> index, name |-> name]

\* the random draws of one enemy_turn
EnemyDraws(e, p) ==
    [damage : EnemyDamages(e.damage), dodged : RandomBelow(p.stats.dodge)]

\* candidate draws for a loop over at most the enemies es
EnemyDrawLists(es) ==
    [1..Len(es) -> [damage : UNION {EnemyDamages(es[i].damage) : i \in 1..Len(es)},
                    dodged : BOOLEAN]]

\* the draws the enemies es can make against the player p, one per enemy
ValidDraws(p, es, draws) ==
    \A i \in 1..Len(es) : draws[i] \in EnemyDraws(es[i], p)

\* what the loop over the enemies hands back
LoopRet(p, evs, defeated) == [player |-> p, events |-> evs, defeated |-> defeated]

RECURSIVE EnemyTurns(_, _, _, _, _)

\* a loop over the enemies that goes on after the player is defeated
EnemyTurns_NoStop(p, es, draws, i, evs) ==
    IF i > Len(es)
    THEN LoopRet(p, evs, p.stats.health = 0 /\ evs # <<>>)
    ELSE LET t == EnemyTurn(es[i], p, draws[i].damage, draws[i].dodged)
             evs1 == Append(evs, Event("enemy_turn", i - 1, es[i].name))
             evs2 == Append(evs1, Event("player_defeated", i - 1, es[i].name))
         IN EnemyTurns(t.player, es, draws, i + 1,
                       IF t.result.target_defeated THEN evs2 ELSE evs1)

\* `for enemy in combat_enemies: enemy_turn(enemy, player)`, left at the
\* first attack that defeats the player; i is the position reached
EnemyTurns(p, es, draws, i, evs) ==
    IF i > Len(es)
    THEN LoopRet(p, evs, FALSE)
    ELSE LET t == EnemyTurn(es[i], p, draws[i].damage, draws[i].dodged)
             evs1 == Append(evs, Event("enemy_turn", i - 1, es[i].name))
         IN IF t.result.target_defeated
            THEN LoopRet(t.player,
                         Append(evs1, Event("player_defeated", i - 1, es[i].name)),
                         TRUE)
            ELSE EnemyTurns(t.player, es, draws, i + 1, evs1)

\* what handle_combat_turn leaves behind and returns
GameRet(st, p, es, res, evs, combat_over) ==
    [state |-> st, player |-> p, enemies |-> es, result |-> res, events |-> evs,
     combat_over |-> combat_over]

\* a handle_combat_turn that pays the gold of the target at every hit
AfterPlayerTurn_RewardOnHit(st, t, target_index, draws) ==
    LET evs0 == <<Event("player_turn", target_index, "")>>
        defeated_enemy == t.enemies[target_index + 1]
        es1 == IF t.result.target_defeated THEN Pop(t.enemies, target_index)
               ELSE t.enemies
        st1 == IF t.result.target_defeated \/ t.result.damage_dealt > 0
               THEN [st EXCEPT !.gold = @ + defeated_enemy.gold_reward,
                               !.room_enemies = es1]
               ELSE [st EXCEPT !.room_enemies = es1]
        p1 == IF t.result.target_defeated
              THEN CharacterAddXp(t.player, defeated_enemy.xp_reward)
              ELSE t.player
        evs1 == IF t.result.target_defeated
                THEN evs0 \o <<Event("remove", target_index, defeated_enemy.name),
                               Event("reward", target_index, defeated_enemy.name)>>
                ELSE evs0
    IN IF t.result.target_defeated /\ es1 = <<>>
       THEN GameRet([st1 EXCEPT !.in_combat = FALSE], p1, es1, t.result, evs1, TRUE)
       ELSE LET l == EnemyTurns(p1, es1, draws, 1, evs1) IN
            IF l.defeated
            THEN GameRet([st1 EXCEPT !.game_over = TRUE, !.in_combat = FALSE],
                         l.player, es1, t.result, l.events, TRUE)
            ELSE GameRet(st1, l.player, es1, t.result, l.events, FALSE)

\* GameInstance.handle_combat_turn after its player_turn call returned t:
\* the removal and the reward of a defeated target, then the enemies' turns;
\* combat_enemies is the list of the room, so the room loses the enemy the
\* fight loses
AfterPlayerTurn(st, t, target_index, draws) ==
    LET evs0 == <<Event("player_turn", target_index, "")>>
        defeated_enemy == t.enemies[target_index + 1]
        es1 == IF t.result.target_defeated THEN Pop(t.enemies, target_index)
               ELSE t.enemies
        st1 == IF t.result.target_defeated
               THEN [st EXCEPT !.gold = @ + defeated_enemy.gold_reward,
                               !.room_enemies = es1]
               ELSE [st EXCEPT !.room_enemies = es1]
        p1 == IF t.result.target_defeated
              THEN CharacterAddXp(t.player, defeated_enemy.xp_reward)
              ELSE t.player
        evs1 == IF t.result.target_defeated
                THEN evs0 \o <<Event("remove", target_index, defeated_enemy.name),
                               Event("reward", target_index, defeated_enemy.name)>>
                ELSE evs0
    IN IF t.result.target_defeated /\ es1 = <<>>
       THEN GameRet([st1 EXCEPT !.in_combat = FALSE], p1, es1, t.result, evs1, TRUE)
       ELSE LET l == EnemyTurns(p1, es1, draws, 1, evs1) IN
            IF l.defeated
            THEN GameRet([st1 EXCEPT !.game_over = TRUE, !.in_combat = FALSE],
                         l.player, es1, t.result, l.events, TRUE)
            ELSE GameRet(st1, l.player, es1, t.result, l.events, FALSE)

\* GameInstance.handle_combat_turn
HandleCombatTurn(st, p, es, dice_type, dice_index, target_index, draw, is_critical, draws) ==
    IF ~st.in_combat
    THEN GameRet(st, p, es, NoResult, <<Event("error", 0, "Not in combat")>>, FALSE)
    ELSE AfterPlayerTurn(st,
                         PlayerTurn(p, es, dice_type, dice_index, target_index,
                                    draw, is_critical),
                         target_index, draws)

\* the room types generate_floor draws for the middle rooms, of which the
\* ones handle_room treats as a fight and as nothing are kept
MiddleRoomTypes == {"COMBAT", "REST"}

\* DungeonGenerator.generate_floor: the floors it can return, as the
\* room_type of each room
GenerateFloor(floor_level) ==
    LET num_rooms == 5 + Min(floor_level - 1, 5)
        starts == IF floor_level = 1 THEN {"REST"} ELSE {"REST", "EVENT"}
        last == IF floor_level % 3 = 0 THEN "BOSS" ELSE "EXIT"
    IN { <<first>> \o middle \o <<last>> :
           first \in starts, middle \in [1..(num_rooms - 2) -> MiddleRoomTypes] }

\* the enemies _create_room gives a room of the floor (of the random names
\* and gold rewards, the first and the least)
RoomEnemies(room_type, floor_level) ==
    IF room_type = "COMBAT"
    THEN LET num_enemies == 1 + (IF floor_level > 3 THEN 1 ELSE 0)
                              + (IF floor_level > 6 THEN 1 ELSE 0)
         IN [i \in 1..num_enemies |->
               Enemy(IF floor_level <= 3 THEN "Goblin" ELSE "Orc",
                     40 + floor_level * 15, 40 + floor_level * 15,
                     3 + floor_level, 5 * floor_level, 10 * floor_level)]
    ELSE IF room_type = "BOSS"
    THEN << Enemy(IF floor_level <= 3 THEN "Grubnosh the Goblin King"
                  ELSE IF floor_level <= 6 THEN "Bonecrusher the Skeleton Lord"
                  ELSE IF floor_level <= 9 THEN "Grimfang the Minotaur Berserker"
                  ELSE "Flamescale the Ancient Dragon",
                  200 + floor_level * 30, 200 + floor_level * 30,
                  10 + floor_level * 2, 80 * floor_level, floor_level * 50) >>
    ELSE <<>>

\* GameInstance.handle_room: a fight starts in a COMBAT, ELITE or BOSS room
\* that has enemies when none is going on; an EXIT room ends the game in
\* victory on the final floor and otherwise moves to the first room of
\* next_floor, the floor generate_floor returns
HandleRoom(st, es, next_floor) ==
    LET room_type == st.rooms[st.current_room_index + 1] IN
    IF room_type \in {"COMBAT", "ELITE", "BOSS"}
    THEN IF st.room_enemies # <<>> /\ ~st.in_combat
         THEN [state |-> [st EXCEPT !.in_combat = TRUE], enemies |-> st.room_enemies]
         ELSE [state |-> st, enemies |-> es]
    ELSE IF room_type = "EXIT"
    THEN IF st.floor_level >= 9
         THEN [state |-> [st EXCEPT !.victory = TRUE, !.game_over = TRUE],
               enemies |-> es]
         ELSE [state |-> [st EXCEPT !.floor_level = @ + 1,
                                    !.rooms = next_floor,
                                    !.current_room_index = 0,
                                    !.room_enemies = <<>>],
               enemies |-> es]
    ELSE [state |-> st, enemies |-> es]

\* the floors generate_floor can return to a handle_room call made on the
\* room at room_index: none is generated unless the room is an exit
NextFloors(st, room_index) ==
    IF room_index >= 0 /\ room_index < Len(st.rooms) /\ st.rooms[room_index + 1] = "EXIT"
    THEN GenerateFloor(st.floor_level + 1)
    ELSE {<<>>}

\* GameInstance.handle_navigation: refused during a fight and for a room
\* that is not the next one; the enemies of the room are the ones it was
\* generated with
HandleNavigation(st, es, room_index, next_floor) ==
    IF st.in_combat
    THEN [state |-> st, enemies |-> es]
    ELSE IF ~(st.current_room_index < Len(st.rooms) - 1
              /\ room_index = st.current_room_index + 1)
    THEN [state |-> st, enemies |-> es]
    ELSE HandleRoom([st EXCEPT !.current_room_index = room_index,
                               !.room_enemies =
                                   RoomEnemies(st.rooms[room_index + 1], st.floor_level)],
                    es, next_floor)

\* the dice TextUI.handle_combat offers: COMBAT and SPECIAL dice off cooldown
AvailableDice(p) ==
    UNION { { <<t, i - 1>> : i \in {k \in 1..Len(p.dice_set[t]) :
                                       p.dice_set[t][k].cooldown = 0} } :
              t \in {"COMBAT", "SPECIAL"} }

\* TextUI.handle_combat with no die to offer: the enemies act, and the
\* first attack that defeats the player ends the game
SkipTurn(st, p, es, draws) ==
    LET l == EnemyTurns(p, es, draws, 1, <<>>) IN
    GameRet(IF l.defeated THEN [st EXCEPT !.game_over = TRUE] ELSE st,
            l.player, es, NoResult, l.events, l.defeated)

\* the least and the most of randint(5, 15), what a failed escape costs
FleeDamages == {5, 15}

\* "Run Away" where an escape leaves the enemies in the fight
RunAway_KeepsRoster(st, p, es, escaped, damage) ==
    IF escaped
    THEN GameRet([st EXCEPT !.in_combat = FALSE], p, es, NoResult,
                 <<Event("escape", 0, "")>>, TRUE)
    ELSE LET health1 == p.stats.health - damage IN
         IF health1 <= 0
         THEN GameRet([st EXCEPT !.game_over = TRUE, !.in_combat = FALSE],
                      [p EXCEPT !.stats.health = 0], es, NoResult,
                      <<Event("escape_failed", damage, "")>>, TRUE)
         ELSE GameRet(st, [p EXCEPT !.stats.health = health1], es, NoResult,
                      <<Event("escape_failed", damage, "")>>, FALSE)

\* TextUI.handle_combat, "Run Away": escaped is the outcome of
\* `random.random() < 0.5`
RunAway(st, p, es, escaped, damage) ==
    IF escaped
    THEN GameRet([st EXCEPT !.in_combat = FALSE], p, <<>>, NoResult,
                 <<Event("escape", 0, "")>>, TRUE)
    ELSE LET health1 == p.stats.health - damage IN
         IF health1 <= 0
         THEN GameRet([st EXCEPT !.game_over = TRUE, !.in_combat = FALSE],
                      [p EXCEPT !.stats.health = 0], es, NoResult,
                      <<Event("escape_failed", damage, "")>>, TRUE)
         ELSE GameRet(st, [p EXCEPT !.stats.health = health1], es, NoResult,
                      <<Event("escape_failed", damage, "")>>, FALSE)

----------------------------------------------------------------------------
(* Enemy AI: the decide_action of the five behaviors. A decision can depend  *)
(* on random.choice and random.random, so each operator gives the set of    *)
(* decisions the call can return.                                           *)

\* one element of enemy_dice: (dice_type, dice_index, dice_info)
DieEntry(dice_type, dice_index, faces) ==
    [dice_type |-> dice_type, dice_index |-> dice_index, faces |-> faces]

\* the returned tuple (selected_dice_type, selected_dice_index)
Decision(dice_type, dice_index) == <<dice_type, dice_index>>

\* (d[0], d[1]) of an element of enemy_dice
Address(d) == Decision(d.dice_type, d.dice_index)

\* the default the behaviors return for an empty enemy_dice
SafeDefault == Decision("COMBAT", 0)

\* the call returned nothing: `x / 0` raised ZeroDivisionError, which no
\* behavior catches
ZeroDivisionError == Decision("ZeroDivisionError", 0)

\* the least element of a non-empty set of integers
Least(S) == CHOOSE i \in S : \A j \in S : i <= j

\* random.choice(enemy_dice), as (selected[0], selected[1])
RandomChoice(enemy_dice) == {Address(enemy_dice[i]) : i \in 1..Len(enemy_dice)}

\* RandomBehavior.decide_action
RandomBehavior(enemy_dice) ==
    IF enemy_dice = <<>> THEN {SafeDefault} ELSE RandomChoice(enemy_dice)

\* the attack faces of a die and their score
AttackFaces(d) ==
    SelectSeq(d.faces, LAMBDA f : f.category = "COMBAT" /\ Contains("Attack", f.name))

AttackScore(d) == SumValues(SelectSeq(AttackFaces(d), LAMBDA f : f.value > 0))

\* AggressiveBehavior.decide_action
AggressiveBehavior(enemy_dice) ==
    IF enemy_dice = <<>> THEN {SafeDefault}
    ELSE
    LET attack_dice == {n \in 1..Len(enemy_dice) : LET d == enemy_dice[n] IN d.dice_type = "COMBAT" /\ AttackFaces(d) # <<>>}
        combat_dice == {n \in 1..Len(enemy_dice) : LET d == enemy_dice[n] IN d.dice_type = "COMBAT"}
        best == {i \in attack_dice :
                   \A j \in attack_dice :
                      AttackScore(enemy_dice[j]) <= AttackScore(enemy_dice[i])}
    IN IF attack_dice # {} THEN {Address(enemy_dice[Least(best)])}
       ELSE IF combat_dice # {} THEN {Address(enemy_dice[Least(combat_dice)])}
       ELSE RandomChoice(enemy_dice)

\* enemy.health / enemy.max_health
HealthPercentage(e) == Frac(e.health, e.max_health)

\* DefensiveBehavior.decide_action
DefensiveBehavior(e, enemy_dice) ==
    IF enemy_dice = <<>> THEN {SafeDefault}
    ELSE IF e.max_health = 0 THEN {ZeroDivisionError}
    ELSE
    LET health_percentage == HealthPercentage(e)
        healing == {n \in 1..Len(enemy_dice) : LET d == enemy_dice[n] IN \E i \in 1..Len(d.faces) :
                                   \/ Contains("Heal", d.faces[i].name)
                                   \/ Contains("Defense", d.faces[i].name)
                                   \/ Contains("Block", d.faces[i].name)}
        combat_dice == {n \in 1..Len(enemy_dice) : LET d == enemy_dice[n] IN d.dice_type = "COMBAT"}
    IN IF FracLt(health_percentage, Frac(3, 10))
       THEN IF healing # {} THEN {Address(enemy_dice[Least(healing)])}
            ELSE AggressiveBehavior(enemy_dice)
       ELSE IF FracLt(health_percentage, Frac(6, 10))
       THEN IF combat_dice # {} THEN {Address(enemy_dice[Least(combat_dice)])}
            ELSE AggressiveBehavior(enemy_dice)
       ELSE AggressiveBehavior(enemy_dice)

\* a + 0.3 and a - 0.3
PlusThreeTenths(a) == Frac(a.num * 10 + 3 * a.den, a.den * 10)

MinusThreeTenths(a) == Frac(a.num * 10 - 3 * a.den, a.den * 10)

\* TacticalBehavior.decide_action; st is the player's CharacterStats
TacticalBehavior(e, st, enemy_dice) ==
    IF enemy_dice = <<>> THEN {SafeDefault}
    ELSE IF e.max_health = 0 \/ st.max_health = 0 THEN {ZeroDivisionError}
    ELSE
    LET enemy_health_percentage == HealthPercentage(e)
        player_health_percentage == Frac(st.health, st.max_health)
        status_dice == {n \in 1..Len(enemy_dice) : LET d == enemy_dice[n] IN \E i \in 1..Len(d.faces) :
                                       d.faces[i].category = "EFFECT"}
    IN IF FracLt(PlusThreeTenths(player_health_percentage), enemy_health_percentage)
       THEN AggressiveBehavior(enemy_dice)
       ELSE IF FracLt(enemy_health_percentage, MinusThreeTenths(player_health_percentage))
       THEN DefensiveBehavior(e, enemy_dice)
       ELSE {Address(enemy_dice[i]) : i \in status_dice}
            \cup AggressiveBehavior(enemy_dice)
            \cup DefensiveBehavior(e, enemy_dice)

\* BossBehavior()
NewBoss == [turn_count |-> 0, phase |-> 1, phase_abilities_used |-> {}]

\* the keys of phase_abilities_used
UltimateKey(d) == <<"ultimate", d.dice_type, d.dice_index>>

HealKey == <<"phase2_heal", "", 0>>

\* a die with a face named "Ultimate" of value >= 4
HasUltimate(d) ==
    \E i \in 1..Len(d.faces) :
       Contains("Ultimate", d.faces[i].name) /\ d.faces[i].value >= 4

\* what a BossBehavior call leaves and returns: the object after the call,
\* the decision, and the branch that made it
BossRet(b, decision, via) == [boss |-> b, decision |-> decision, via |-> via]

\* a boss that keeps the abilities it used when it changes phase
BossBehavior_NoReset(b, e, st, enemy_dice) ==
    IF enemy_dice = <<>> THEN {BossRet(b, SafeDefault, "default")}
    ELSE IF e.max_health = 0
    THEN {BossRet([b EXCEPT !.turn_count = @ + 1], ZeroDivisionError, "raise")}
    ELSE
    LET turn_count == b.turn_count + 1
        health_percentage == HealthPercentage(e)
        new_phase == IF FracLt(health_percentage, Frac(3, 10)) THEN 3
                     ELSE IF FracLt(health_percentage, Frac(6, 10)) THEN 2
                     ELSE 1
        used == b.phase_abilities_used
        b1 == [turn_count |-> turn_count, phase |-> new_phase,
               phase_abilities_used |-> used]
        ultimate == {n \in 1..Len(enemy_dice) : LET d == enemy_dice[n] IN HasUltimate(d) /\ UltimateKey(d) \notin used}
        healing == {n \in 1..Len(enemy_dice) : LET d == enemy_dice[n] IN \E i \in 1..Len(d.faces) :
                                   Contains("Heal", d.faces[i].name)}
        special == {n \in 1..Len(enemy_dice) : LET d == enemy_dice[n] IN d.dice_type = "SPECIAL"}
    IN IF new_phase = 3 /\ ultimate # {}
       THEN LET d == enemy_dice[Least(ultimate)] IN
            {BossRet([b1 EXCEPT !.phase_abilities_used = @ \cup {UltimateKey(d)}],
                     Address(d), "ultimate")}
       ELSE IF new_phase = 2 /\ HealKey \notin used /\ healing # {}
       THEN {BossRet([b1 EXCEPT !.phase_abilities_used = @ \cup {HealKey}],
                     Address(enemy_dice[Least(healing)]), "heal")}
       ELSE IF turn_count % 3 = 0 /\ special # {}
       THEN {BossRet(b1, Address(enemy_dice[Least(special)]), "special")}
       ELSE {BossRet(b1, decision, "tactical") :
               decision \in TacticalBehavior(e, st, enemy_dice)}

\* a boss that counts the turn before it looks at enemy_dice
BossBehavior_CountFirst(b, e, st, enemy_dice) ==
    IF enemy_dice = <<>>
    THEN {BossRet([b EXCEPT !.turn_count = @ + 1], SafeDefault, "default")}
    ELSE IF e.max_health = 0
    THEN {BossRet([b EXCEPT !.turn_count = @ + 1], ZeroDivisionError, "raise")}
    ELSE
    LET turn_count == b.turn_count + 1
        health_percentage == HealthPercentage(e)
        new_phase == IF FracLt(health_percentage, Frac(3, 10)) THEN 3
                     ELSE IF FracLt(health_percentage, Frac(6, 10)) THEN 2
                     ELSE 1
        used == IF new_phase # b.phase THEN {} ELSE b.phase_abilities_used
        b1 == [turn_count |-> turn_count, phase |-> new_phase,
               phase_abilities_used |-> used]
        ultimate == {n \in 1..Len(enemy_dice) : LET d == enemy_dice[n] IN HasUltimate(d) /\ UltimateKey(d) \notin used}
        healing == {n \in 1..Len(enemy_dice) : LET d == enemy_dice[n] IN \E i \in 1..Len(d.faces) :
                                   Contains("Heal", d.faces[i].name)}
        special == {n \in 1..Len(enemy_dice) : LET d == enemy_dice[n] IN d.dice_type = "SPECIAL"}
    IN IF new_phase = 3 /\ ultimate # {}
       THEN LET d == enemy_dice[Least(ultimate)] IN
            {BossRet([b1 EXCEPT !.phase_abilities_used = @ \cup {UltimateKey(d)}],
                     Address(d), "ultimate")}
       ELSE IF new_phase = 2 /\ HealKey \notin used /\ healing # {}
       THEN {BossRet([b1 EXCEPT !.phase_abilities_used = @ \cup {HealKey}],
                     Address(enemy_dice[Least(healing)]), "heal")}
       ELSE IF turn_count % 3 = 0 /\ special # {}
       THEN {BossRet(b1, Address(enemy_dice[Least(special)]), "special")}
       ELSE {BossRet(b1, decision, "tactical") :
               decision \in TacticalBehavior(e, st, enemy_dice)}

\* a boss that heals in phase 2 whether or not it has healed in the phase
BossBehavior_HealAgain(b, e, st, enemy_dice) ==
    IF enemy_dice = <<>> THEN {BossRet(b, SafeDefault, "default")}
    ELSE IF e.max_health = 0
    THEN {BossRet([b EXCEPT !.turn_count = @ + 1], ZeroDivisionError, "raise")}
    ELSE
    LET turn_count == b.turn_count + 1
        health_percentage == HealthPercentage(e)
        new_phase == IF FracLt(health_percentage, Frac(3, 10)) THEN 3
                     ELSE IF FracLt(health_percentage, Frac(6, 10)) THEN 2
                     ELSE 1
        used == IF new_phase # b.phase THEN {} ELSE b.phase_abilities_used
        b1 == [turn_count |-> turn_count, phase |-> new_phase,
               phase_abilities_used |-> used]
        ultimate == {n \in 1..Len(enemy_dice) : LET d == enemy_dice[n] IN HasUltimate(d) /\ UltimateKey(d) \notin used}
        healing == {n \in 1..Len(enemy_dice) : LET d == enemy_dice[n] IN \E i \in 1..Len(d.faces) :
                                   Contains("Heal", d.faces[i].name)}
        special == {n \in 1..Len(enemy_dice) : LET d == enemy_dice[n] IN d.dice_type = "SPECIAL"}
    IN IF new_phase = 3 /\ ultimate # {}
       THEN LET d == enemy_dice[Least(ultimate)] IN
            {BossRet([b1 EXCEPT !.phase_abilities_used = @ \cup {UltimateKey(d)}],
                     Address(d), "ultimate")}
       ELSE IF new_phase = 2 /\ healing # {}
       THEN {BossRet([b1 EXCEPT !.phase_abilities_used = @ \cup {HealKey}],
                     Address(enemy_dice[Least(healing)]), "heal")}
       ELSE IF turn_count % 3 = 0 /\ special # {}
       THEN {BossRet(b1, Address(enemy_dice[Least(special)]), "special")}
       ELSE {BossRet(b1, decision, "tactical") :
               decision \in TacticalBehavior(e, st, enemy_dice)}

\* BossBehavior.decide_action; st is the player's CharacterStats
BossBehavior(b, e, st, enemy_dice) ==
    IF enemy_dice = <<>> THEN {BossRet(b, SafeDefault, "default")}
    ELSE IF e.max_health = 0
    THEN {BossRet([b EXCEPT !.turn_count = @ + 1], ZeroDivisionError, "raise")}
    ELSE
    LET turn_count == b.turn_count + 1
        health_percentage == HealthPercentage(e)
        new_phase == IF FracLt(health_percentage, Frac(3, 10)) THEN 3
                     ELSE IF FracLt(health_percentage, Frac(6, 10)) THEN 2
                     ELSE 1
        used == IF new_phase # b.phase THEN {} ELSE b.phase_abilities_used
        b1 == [turn_count |-> turn_count, phase |-> new_phase,
               phase_abilities_used |-> used]
        ultimate == {n \in 1..Len(enemy_dice) : LET d == enemy_dice[n] IN HasUltimate(d) /\ UltimateKey(d) \notin used}
        healing == {n \in 1..Len(enemy_dice) : LET d == enemy_dice[n] IN \E i \in 1..Len(d.faces) :
                                   Contains("Heal", d.faces[i].name)}
        special == {n \in 1..Len(enemy_dice) : LET d == enemy_dice[n] IN d.dice_type = "SPECIAL"}
    IN IF new_phase = 3 /\ ultimate # {}
       THEN LET d == enemy_dice[Least(ultimate)] IN
            {BossRet([b1 EXCEPT !.phase_abilities_used = @ \cup {UltimateKey(d)}],
                     Address(d), "ultimate")}
       ELSE IF new_phase = 2 /\ HealKey \notin used /\ healing # {}
       THEN {BossRet([b1 EXCEPT !.phase_abilities_used = @ \cup {HealKey}],
                     Address(enemy_dice[Least(healing)]), "heal")}
       ELSE IF turn_count % 3 = 0 /\ special # {}
       THEN {BossRet(b1, Address(enemy_dice[Least(special)]), "special")}
       ELSE {BossRet(b1, decision, "tactical") :
               decision \in TacticalBehavior(e, st, enemy_dice)}

\* the behaviors EnemyAI registers
Behaviors == {"random", "aggressive", "defensive", "tactical", "boss"}

\* what a decide_action call of a behavior can leave and return
DecideAction(behavior, b, e, st, enemy_dice) ==
    IF behavior = "boss" THEN BossBehavior(b, e, st, enemy_dice)
    ELSE {BossRet(b, decision, behavior) :
            decision \in IF behavior = "random" THEN RandomBehavior(enemy_dice)
                         ELSE IF behavior = "aggressive"
                         THEN AggressiveBehavior(enemy_dice)
                         ELSE IF behavior = "defensive"
                         THEN DefensiveBehavior(e, enemy_dice)
                         ELSE TacticalBehavior(e, st, enemy_dice)}

\* the enemy types (core/enums.py), and a value that is none of them
EnemyTypes ==
    {"GOBLIN", "SKELETON", "ORC", "ZOMBIE", "GHOST", "SLIME", "MINOTAUR", "DRAGON"}

NoType == "NONE"

\* the names get_behavior takes for a boss
BossNames == {"Grubnosh", "Bonecrusher", "Grimfang", "Flamescale"}

BossNamed(name) ==
    \/ Contains("Boss", name) \/ Contains("Lord", name) \/ Contains("King", name)
    \/ \E n \in BossNames : Contains(n, name)

\* dict.get(key, default)
Get(map, key, default) == IF key \in DOMAIN map THEN map[key] ELSE default

\* the EnemyAI object (the keys of behaviors, enemy_type_behaviors,
\* custom_behaviors) and the last call made on it: its arguments, and what
\* it returned (the key of the behavior for get_behavior, True or False for
\* the setters)
EnemyAI(behaviors, enemy_type_behaviors, custom_behaviors, name, enemy_type, key, ok) ==
    [behaviors |-> behaviors,
     enemy_type_behaviors |-> enemy_type_behaviors,
     custom_behaviors |-> custom_behaviors,
     name |-> name, enemy_type |-> enemy_type, key |-> key, ok |-> ok]

\* EnemyAI()
NewEnemyAI ==
    EnemyAI(Behaviors,
            [t \in EnemyTypes |->
               CASE t \in {"GOBLIN", "ORC", "MINOTAUR"} -> "aggressive"
                 [] t = "SKELETON" -> "random"
                 [] t \in {"ZOMBIE", "SLIME"} -> "defensive"
                 [] t = "GHOST" -> "tactical"
                 [] t = "DRAGON" -> "boss"],
            [n \in {} |-> ""], "", NoType, "", TRUE)

\* a get_behavior that looks at the name before the overrides
GetBehavior_NameFirst(ea, name, enemy_type) ==
    IF BossNamed(name) THEN "boss"
    ELSE IF name \in DOMAIN ea.custom_behaviors THEN ea.custom_behaviors[name]
    ELSE Get(ea.enemy_type_behaviors, enemy_type, "random")

\* EnemyAI.get_behavior: the key of the behavior returned
GetBehavior(ea, name, enemy_type) ==
    IF name \in DOMAIN ea.custom_behaviors THEN ea.custom_behaviors[name]
    ELSE IF BossNamed(name) THEN "boss"
    ELSE Get(ea.enemy_type_behaviors, enemy_type, "random")

\* EnemyAI.register_behavior
RegisterBehavior(ea, key) ==
    EnemyAI(ea.behaviors \cup {key}, ea.enemy_type_behaviors, ea.custom_behaviors,
            "", NoType, key, TRUE)

\* a set_custom_behavior that stores the key without looking it up
SetCustomBehavior_Unchecked(ea, enemy_name, behavior_key) ==
    EnemyAI(ea.behaviors, ea.enemy_type_behaviors,
            [n \in DOMAIN ea.custom_behaviors \cup {enemy_name} |->
               IF n = enemy_name THEN behavior_key ELSE ea.custom_behaviors[n]],
            enemy_name, NoType, behavior_key, TRUE)

\* EnemyAI.set_custom_behavior
SetCustomBehavior(ea, enemy_name, behavior_key) ==
    IF behavior_key \notin ea.behaviors
    THEN EnemyAI(ea.behaviors, ea.enemy_type_behaviors, ea.custom_behaviors,
                 enemy_name, NoType, behavior_key, FALSE)
    ELSE EnemyAI(ea.behaviors, ea.enemy_type_behaviors,
                 [n \in DOMAIN ea.custom_behaviors \cup {enemy_name} |->
                    IF n = enemy_name THEN behavior_key ELSE ea.custom_behaviors[n]],
                 enemy_name, NoType, behavior_key, TRUE)

\* EnemyAI.set_enemy_type_behavior
SetEnemyTypeBehavior(ea, enemy_type, behavior_key) ==
    IF behavior_key \notin ea.behaviors
    THEN EnemyAI(ea.behaviors, ea.enemy_type_behaviors, ea.custom_behaviors,
                 "", enemy_type, behavior_key, FALSE)
    ELSE EnemyAI(ea.behaviors,
                 [t \in DOMAIN ea.enemy_type_behaviors \cup {enemy_type} |->
                    IF t = enemy_type THEN behavior_key
                    ELSE ea.enemy_type_behaviors[t]],
                 ea.custom_behaviors, "", enemy_type, behavior_key, TRUE)

\* the last decide_action call: behavior, enemy and enemy_dice, the
\* decision returned and the branch that made it, and the boss object
\* after it
AiCall(b, behavior, e, enemy_dice, decision, via) ==
    [boss |-> b, behavior |-> behavior, enemy |-> e, enemy_dice |-> enemy_dice,
     decision |-> decision, via |-> via]

\* no call made yet
NewAi == AiCall(NewBoss, "", Enemy("", 1, 1, 0, 0, 0), <<>>, SafeDefault, "")

----------------------------------------------------------------------------
(* The Dice state machine: one die, built by the constructor, then edited,  *)
(* rolled and saved/loaded in any order.                                    *)

Op(name, index, face) ==
    [name |-> name, index |-> index, face |-> face, dice_type |-> "", target |-> 0,
     dodged |-> FALSE]

\* an UNSTABLE die with two different faces of the same value
TieDie ==
    NewDice(4, << DiceFace("Block", -1, "COMBAT"), DiceFace("Block", -2, "COMBAT"),
                  DiceFace("Taunt", 0, "EFFECT"), DiceFace("Poison Blade", 0, "EFFECT") >>, 0)

Init ==
    /\ \E size \in 1..MaxSize, faces \in FaceLists(MaxInitFaces), cd \in 0..MaxCooldown :
          die = NewDice(size, faces, cd)
    /\ op = Op("init", 0, None)
    /\ ret = RetOf(die, TRUE, None, NoMsg, <<>>)
    /\ n_rolled = 0
    /\ n_double = 0
    /\ player = NewCharacter(DefaultStats, EmptyDiceSet)
    /\ enemies = <<>>
    /\ combat_result = NoResult
    /\ state = NewGameState
    /\ events = <<>>
    /\ ai = NewAi
    /\ enemy_ai = NewEnemyAI

DoAddFace ==
    \E face \in DieFaces :
       /\ ret' = AddFace(die, face)
       /\ die' = ret'.die
       /\ op' = Op("add_face", 0, face)
       /\ UNCHANGED <<n_rolled, n_double, combat_vars, game_vars, ai_vars>>

DoRemoveFace ==
    \E index \in -1..MaxInitFaces :
       /\ ret' = RemoveFace(die, index)
       /\ die' = ret'.die
       /\ op' = Op("remove_face", index, None)
       /\ UNCHANGED <<n_rolled, n_double, combat_vars, game_vars, ai_vars>>

DoReplaceFace ==
    \E index \in -1..MaxInitFaces, face \in DieFaces :
       /\ ret' = ReplaceFace(die, index, face)
       /\ die' = ret'.die
       /\ op' = Op("replace_face", index, face)
       /\ UNCHANGED <<n_rolled, n_double, combat_vars, game_vars, ai_vars>>

\* roll() on the die; max_rolls and max_double bound the session
DoRoll(max_rolls, max_double) ==
    /\ n_rolled < max_rolls
    /\ \E r \in RollDraws(die) :
          /\ ret' = Roll(die, r.unstable, r.c1, r.c2, r.c)
          /\ ret'.effects # <<>> => n_double < max_double
          /\ die' = ret'.die
          /\ op' = Op("roll", 0, None)
          /\ n_rolled' = IF ret'.face # None THEN n_rolled + 1 ELSE n_rolled
          /\ n_double' = IF ret'.effects # <<>> THEN n_double + 1 ELSE n_double
          /\ UNCHANGED <<combat_vars, game_vars, ai_vars>>

DoSaveLoad ==
    /\ die' = FromDict(ToDict(die))
    /\ op' = Op("from_dict", 0, None)
    /\ ret' = RetOf(die', TRUE, None, NoMsg, <<>>)
    /\ UNCHANGED <<n_rolled, n_double, combat_vars, game_vars, ai_vars>>

Next ==
    \/ DoAddFace
    \/ DoRemoveFace
    \/ DoReplaceFace
    \/ DoRoll(MaxEditRolls, MaxEditRolls)
    \/ DoSaveLoad

Spec == Init /\ [][Next]_vars

\* a rolling session: the die as constructed is only rolled
NextXp == DoRoll(MaxRolls, MaxDouble)

\* the dice of a rolling session: the constructed ones and the tie die
InitXp ==
    \/ Init
    \/ /\ die = TieDie
       /\ op = Op("init", 0, None)
       /\ ret = RetOf(die, TRUE, None, NoMsg, <<>>)
       /\ n_rolled = 0
       /\ n_double = 0
       /\ player = NewCharacter(DefaultStats, EmptyDiceSet)
       /\ enemies = <<>>
       /\ combat_result = NoResult
       /\ state = NewGameState
       /\ events = <<>>
       /\ ai = NewAi
       /\ enemy_ai = NewEnemyAI

SpecXp == InitXp /\ [][NextXp]_vars

----------------------------------------------------------------------------
(* Dice.add_xp called by a caller that awards xp of its own *)

\* amounts: nothing, a roll's award, a first threshold, the first two
\* thresholds (100 + 150) and more
XpAmounts == {0, 10, 100, 250, 300}

\* xp_to_next_level the die is built with: the default and the least
Thresholds == {1, 100}

InitAddXp ==
    /\ \E t \in Thresholds :
          die = [NewDice(2, <<>>, 0) EXCEPT !.xp_to_next_level = t]
    /\ op = Op("init", 0, None)
    /\ ret = RetOf(die, TRUE, None, NoMsg, <<>>)
    /\ n_rolled = 0
    /\ n_double = 0
    /\ player = NewCharacter(DefaultStats, EmptyDiceSet)
    /\ enemies = <<>>
    /\ combat_result = NoResult
    /\ state = NewGameState
    /\ events = <<>>
    /\ ai = NewAi
    /\ enemy_ai = NewEnemyAI

\* add_xp(amount); ret.ok is the returned flag (True when the die leveled up)
DoAddXp ==
    /\ die.level < MaxXpLevel
    /\ \E amount \in XpAmounts :
          /\ die' = AddXp(die, amount)
          /\ op' = Op("add_xp", amount, None)
          /\ ret' = RetOf(die', die'.level # die.level, None, NoMsg, <<>>)
    /\ UNCHANGED <<n_rolled, n_double, combat_vars, game_vars, ai_vars>>

NextAddXp == DoAddXp

SpecAddXp == InitAddXp /\ [][NextAddXp]_vars

----------------------------------------------------------------------------
(* The combat state machine: CombatSystem.player_turn and enemy_turn called  *)
(* in any order on one character and one list of enemies.                   *)

\* the combat die of the warrior (game_instance.py:305-353) with the Block,
\* Taunt and Cleave faces replaced by Quick Strike, a heavier Block and
\* Major Heal
CombatDie ==
    AddFaces(NewDice(6, <<>>, 0),
             << DiceFace("Strike", 1, "COMBAT"),
                DiceFace("Heavy Strike", 2, "COMBAT"),
                DiceFace("Quick Strike", 1, "COMBAT"),
                DiceFace("Block", -2, "COMBAT"),
                DiceFace("Minor Heal", 1, "EFFECT"),
                DiceFace("Major Heal", 2, "EFFECT") >>)

\* a second combat die, out of balance (UNSTABLE) and on cooldown
SpareDie ==
    AddFaces(NewDice(4, <<>>, 1),
             << DiceFace("Block", -1, "COMBAT"),
                DiceFace("Block", -2, "COMBAT"),
                DiceFace("Taunt", 0, "EFFECT"),
                DiceFace("Poison Blade", 0, "EFFECT") >>)

\* a character die (game_instance.py:130-180) with a Vitality debuff, a
\* utility face and a meta face
TraitDie ==
    AddFaces(NewDice(6, <<>>, 0),
             << DiceFace("Strength", 2, "TRAIT"),
                DiceFace("Vitality", 1, "TRAIT"),
                DiceFace("Vitality", -1, "TRAIT"),
                DiceFace("Weakness", -1, "TRAIT"),
                DiceFace("Perception", 1, "UTILITY"),
                DiceFace("Reroll", 0, "META") >>)

\* a die that has no faces yet
BlankDie == NewDice(4, <<>>, 0)

PlayerDiceSet ==
    [EmptyDiceSet EXCEPT !["CHARACTER"] = <<TraitDie>>,
                         !["COMBAT"] = <<CombatDie, SpareDie>>,
                         !["SPECIAL"] = <<BlankDie>>]

\* floor-1 enemies (health 55, damage 4, gold 5..10, xp 10:
\* dungeon.py:400-406) part-way through a fight
Goblin == Enemy("Goblin", 18, 55, 4, 5, 10)

Skeleton == Enemy("Skeleton", 8, 55, 4, 7, 10)

\* no enemy, one, or one with a weaker second one
Rosters == { <<>>, << Goblin >>, << Goblin, Skeleton >> }

StartStats ==
    { [DefaultStats EXCEPT !.max_health = StartMaxHealth, !.health = h,
                           !.physical_damage = pd] :
        h \in {LowHealth, StartMaxHealth},
        pd \in {LowDamage, DefaultStats.physical_damage} }

InitCombat ==
    /\ die = BlankDie
    /\ op = Op("init", 0, None)
    /\ ret = RetOf(die, TRUE, None, NoMsg, <<>>)
    /\ n_rolled = 0
    /\ n_double = 0
    /\ \E st \in StartStats : player = NewCharacter(st, PlayerDiceSet)
    /\ enemies \in Rosters
    /\ combat_result = NoResult
    /\ state = NewGameState
    /\ events = <<>>
    /\ ai = NewAi
    /\ enemy_ai = NewEnemyAI

\* the last combat call: its name, the face it resolved (None when it
\* resolved none), the index of the enemy it attacked or that attacked, and
\* whether the dodge check of enemy_turn succeeded
CombatOp(name, face, target_index, dodged) ==
    [name |-> name, index |-> 0, face |-> face, dice_type |-> "",
     target |-> target_index, dodged |-> dodged]

\* (dice_type, dice_index) arguments: every die the character owns, and
\* indices before and past the end of a list, of a list without dice too
DieAddresses(p) ==
    UNION { { <<t, i>> : i \in {k \in 0..MaxDicePerType : k < Len(p.dice_set[t])} } :
              t \in {"CHARACTER", "COMBAT", "SPECIAL"} }
    \cup { <<"COMBAT", -1>>, <<"COMBAT", Len(p.dice_set["COMBAT"])>>, <<"FATE", 0>> }

\* target_index arguments: every enemy, and one index on either side
TargetIndices(es) == -1..Len(es)

\* the outcomes of the critical check, which only a COMBAT face draws
CriticalDraws(p, face) ==
    IF face.category = "COMBAT" THEN RandomBelow(p.stats.crit_chance) ELSE {FALSE}

DoPlayerTurn ==
    /\ n_rolled < MaxTurnRolls
    /\ \E a \in DieAddresses(player), target_index \in TargetIndices(enemies) :
         \E draw \in RollDieDraws(player, a[1], a[2]) :
           \E face \in {RolledFace(player, enemies, a[1], a[2], target_index, draw)} :
             \E is_critical \in CriticalDraws(player, face) :
               \E t \in {PlayerTurn(player, enemies, a[1], a[2], target_index,
                                    draw, is_critical)} :
                  /\ player' = t.player
                  /\ enemies' = t.enemies
                  /\ combat_result' = t.result
                  /\ op' = CombatOp("player_turn", face,
                                    IF face.category = "COMBAT"
                                       \/ InvalidTarget(enemies, target_index)
                                    THEN target_index ELSE 0,
                                    FALSE)
                  /\ n_rolled' = IF face # None THEN n_rolled + 1 ELSE n_rolled
                  /\ n_double' = IF face # None /\ draw.unstable
                                 THEN n_double + 1 ELSE n_double
                  /\ UNCHANGED <<die, ret, game_vars, ai_vars>>

DoEnemyTurn ==
    \E i \in 1..Len(enemies) :
       \E damage \in EnemyDamages(enemies[i].damage),
          dodged \in RandomBelow(player.stats.dodge) :
          \E t \in {EnemyTurn(enemies[i], player, damage, dodged)} :
             /\ player' = t.player
             /\ enemies' = [enemies EXCEPT ![i] = t.enemies[1]]
             /\ combat_result' = t.result
             /\ op' = CombatOp("enemy_turn", None, i - 1, dodged)
             /\ UNCHANGED <<die, ret, n_rolled, n_double, game_vars, ai_vars>>

NextCombat ==
    \/ DoPlayerTurn
    \/ DoEnemyTurn

SpecCombat == InitCombat /\ [][NextCombat]_vars

\* a balanced combat die of effect faces: one per status keyword, and one
\* that names a status and a heal
StatusDie ==
    AddFaces(NewDice(4, <<>>, 0),
             << DiceFace("Bleeding Edge", 0, "EFFECT"),
                DiceFace("Poison Blade", 0, "EFFECT"),
                DiceFace("Stunning Blow", 0, "EFFECT"),
                DiceFace("Healing Poison", 0, "EFFECT") >>)

\* the status-effect map of the character at the start: empty, or poisoned
StatusMaps == { <<>>, [n \in {"Poisoned"} |-> 2] }

\* a combat session of a character whose combat die is the status die
InitStatus ==
    /\ die = BlankDie
    /\ op = Op("init", 0, None)
    /\ ret = RetOf(die, TRUE, None, NoMsg, <<>>)
    /\ n_rolled = 0
    /\ n_double = 0
    /\ \E st \in StartStats, m \in StatusMaps :
          player = NewCharacter([st EXCEPT !.status_effects = m],
                                [EmptyDiceSet EXCEPT !["COMBAT"] = <<StatusDie>>])
    /\ enemies \in Rosters
    /\ combat_result = NoResult
    /\ state = NewGameState
    /\ events = <<>>
    /\ ai = NewAi
    /\ enemy_ai = NewEnemyAI

SpecStatus == InitStatus /\ [][NextCombat]_vars

----------------------------------------------------------------------------
(* The game state machine: a combat room entered through handle_room, and   *)
(* the fight played through handle_combat_turn and the two paths of         *)
(* TextUI.handle_combat that do not go through it.                          *)

\* a dice set whose only die TextUI.handle_combat could offer is on cooldown
CooldownDiceSet == [EmptyDiceSet EXCEPT !["COMBAT"] = <<SpareDie>>]

\* the characters a fight starts with: fresh, or 10 xp short of level 2
\* a combat die to fight with, as TextUI.handle_combat offers only COMBAT
\* and SPECIAL dice
GameDiceSet == [EmptyDiceSet EXCEPT !["COMBAT"] = <<CombatDie>>]

StartPlayers ==
    { [NewCharacter(st, ds) EXCEPT !.xp = xp] :
        st \in {t \in StartStats : t.physical_damage = DefaultStats.physical_damage},
        ds \in {GameDiceSet, CooldownDiceSet},
        xp \in {0, NearLevelXp} }

InitGame ==
    /\ die = BlankDie
    /\ op = Op("init", 0, None)
    /\ ret = RetOf(die, TRUE, None, NoMsg, <<>>)
    /\ n_rolled = 0
    /\ n_double = 0
    /\ player \in StartPlayers
    /\ enemies = <<>>
    /\ combat_result = NoResult
    /\ \E room_enemies \in Rosters : state = GameState(FALSE, FALSE, 0, room_enemies)
    /\ events = <<>>
    /\ ai = NewAi
    /\ enemy_ai = NewEnemyAI

\* the main loop of TextUI shows the room until the game is over
DoHandleRoom ==
    /\ ~state.game_over
    /\ \E next_floor \in NextFloors(state, state.current_room_index) :
          \E r \in {HandleRoom(state, enemies, next_floor)} :
             /\ state' = r.state
             /\ enemies' = r.enemies
    /\ op' = CombatOp("handle_room", None, 0, FALSE)
    /\ events' = <<>>
    /\ UNCHANGED <<die, ret, n_rolled, n_double, player, combat_result, ai_vars>>

DoHandleCombatTurn ==
    /\ ~state.game_over
    /\ n_rolled < MaxRounds
    /\ \E a \in DieAddresses(player), target_index \in TargetIndices(enemies) :
         \E draw \in RollDieDraws(player, a[1], a[2]) :
           \E face \in {IF state.in_combat
                         THEN RolledFace(player, enemies, a[1], a[2], target_index, draw)
                         ELSE None} :
             \E is_critical \in CriticalDraws(player, face) :
               \E draws \in EnemyDrawLists(enemies) :
                 \E g \in {HandleCombatTurn(state, player, enemies, a[1], a[2],
                                            target_index, draw, is_critical, draws)} :
                    /\ ValidDraws(g.player, g.enemies, draws)
                    /\ state' = g.state
                    /\ player' = g.player
                    /\ enemies' = g.enemies
                    /\ combat_result' = g.result
                    /\ events' = g.events
                    /\ op' = CombatOp("handle_combat_turn", face,
                                      IF face.category = "COMBAT"
                                         \/ InvalidTarget(enemies, target_index)
                                      THEN target_index ELSE 0,
                                      FALSE)
                    /\ n_rolled' = n_rolled + 1
                    /\ n_double' = IF face # None /\ draw.unstable
                                   THEN n_double + 1 ELSE n_double
                    /\ UNCHANGED <<die, ret, ai_vars>>

DoSkipTurn ==
    /\ state.in_combat
    /\ ~state.game_over
    /\ AvailableDice(player) = {}
    /\ \E draws \in EnemyDrawLists(enemies) :
          \E g \in {SkipTurn(state, player, enemies, draws)} :
             /\ ValidDraws(player, enemies, draws)
             /\ state' = g.state
             /\ player' = g.player
             /\ enemies' = g.enemies
             /\ events' = g.events
    /\ op' = CombatOp("skip_turn", None, 0, FALSE)
    /\ UNCHANGED <<die, ret, n_rolled, n_double, combat_result, ai_vars>>

DoRunAway ==
    /\ state.in_combat
    /\ ~state.game_over
    /\ AvailableDice(player) # {}
    /\ \E escaped \in BOOLEAN, damage \in FleeDamages :
          \E g \in {RunAway(state, player, enemies, escaped, damage)} :
             /\ state' = g.state
             /\ player' = g.player
             /\ enemies' = g.enemies
             /\ events' = g.events
    /\ op' = CombatOp("run_away", None, 0, FALSE)
    /\ UNCHANGED <<die, ret, n_rolled, n_double, combat_result, ai_vars>>

NextGame ==
    \/ DoHandleRoom
    \/ DoHandleCombatTurn
    \/ DoSkipTurn
    \/ DoRunAway

SpecGame == InitGame /\ [][NextGame]_vars

----------------------------------------------------------------------------
(* The dungeon state machine: a new game, rooms shown through handle_room,  *)
(* handle_navigation to the next room, and fights in which every roll of    *)
(* the player is a Heavy Strike and every attack of an enemy is dodged.     *)

InitDungeon ==
    /\ die = BlankDie
    /\ op = Op("init", 0, None)
    /\ ret = RetOf(die, TRUE, None, NoMsg, <<>>)
    /\ n_rolled = 0
    /\ n_double = 0
    /\ player = NewCharacter(DefaultStats, GameDiceSet)
    /\ enemies = <<>>
    /\ combat_result = NoResult
    /\ \E rooms \in GenerateFloor(1) :
          state = [NewGameState EXCEPT !.rooms = rooms, !.current_room_index = 0]
    /\ events = <<>>
    /\ ai = NewAi
    /\ enemy_ai = NewEnemyAI

\* handle_navigation to the next room, and to a room that is not the next
DoHandleNavigation ==
    /\ ~state.game_over
    /\ \E room_index \in {0, state.current_room_index + 1} :
        \E next_floor \in NextFloors(state, room_index) :
          \E r \in {HandleNavigation(state, enemies, room_index, next_floor)} :
             /\ state' = r.state
             /\ enemies' = r.enemies
             /\ op' = CombatOp("handle_navigation", None, room_index, FALSE)
    /\ events' = <<>>
    /\ UNCHANGED <<die, ret, n_rolled, n_double, player, combat_result, ai_vars>>

\* a handle_combat_turn with the first combat die on the first enemy, in
\* which the die shows its Heavy Strike, no critical hit is made and every
\* attack of an enemy is dodged
DoWinningRound ==
    /\ ~state.game_over
    /\ state.in_combat
    /\ \E draw \in {r \in RollDieDraws(player, "COMBAT", 0) : ~r.unstable /\ r.c = 2} :
         \E draws \in {l \in EnemyDrawLists(enemies) : \A i \in 1..Len(l) : l[i].dodged} :
           \E g \in {HandleCombatTurn(state, player, enemies, "COMBAT", 0, 0,
                                      draw, FALSE, draws)} :
              /\ ValidDraws(g.player, g.enemies, draws)
              /\ state' = g.state
              /\ player' = g.player
              /\ enemies' = g.enemies
              /\ combat_result' = g.result
              /\ events' = g.events
              /\ op' = CombatOp("handle_combat_turn",
                                RolledFace(player, enemies, "COMBAT", 0, 0, draw),
                                0, FALSE)
              /\ n_rolled' = n_rolled + 1
              /\ UNCHANGED <<die, ret, n_double, ai_vars>>

NextDungeon ==
    \/ DoHandleRoom
    \/ DoHandleNavigation
    \/ DoWinningRound

SpecDungeon == InitDungeon /\ [][NextDungeon]_vars

----------------------------------------------------------------------------
(* The AI state machine: decide_action of the five behaviors, called in any *)
(* order with any enemy health and any list of available dice; the         *)
(* BossBehavior object is the one EnemyAI registers, kept between calls.   *)

\* the dice an enemy can be offered
EnemyDice ==
    { DieEntry("COMBAT", 0, << DiceFace("Ultimate Blast", 5, "COMBAT"),
                               DiceFace("Basic Attack", 2, "COMBAT") >>),
      DieEntry("SPECIAL", 0, << DiceFace("Ultimate Blast", 5, "COMBAT") >>),
      DieEntry("COMBAT", 1, << DiceFace("Ultimate Roar", 3, "COMBAT"),
                               DiceFace("Basic Attack", 2, "COMBAT"),
                               DiceFace("Minor Heal", 1, "EFFECT") >>) }

\* the enemy_dice lists: up to MaxEnemyDice different dice in any order
EnemyDiceLists ==
    UNION { {l \in [1..k -> EnemyDice] : \A i, j \in 1..k : l[i] = l[j] => i = j} :
              k \in 0..MaxEnemyDice }

\* a floor-4 enemy (max_health 100, damage 7, xp 40: dungeon.py:400-406)
\* in each phase, and at the edge of phase 3
Bosses == { Enemy("Dragon", h, 100, 7, 20, 40) : h \in {25, 30, 45, 80} }

InitAi ==
    /\ die = BlankDie
    /\ op = Op("init", 0, None)
    /\ ret = RetOf(die, TRUE, None, NoMsg, <<>>)
    /\ n_rolled = 0
    /\ n_double = 0
    /\ \E st \in {t \in StartStats : t.physical_damage = DefaultStats.physical_damage} :
          player = NewCharacter(st, EmptyDiceSet)
    /\ enemies = <<>>
    /\ combat_result = NoResult
    /\ state = NewGameState
    /\ events = <<>>
    /\ ai = NewAi
    /\ enemy_ai = NewEnemyAI

\* an enemy built with max_health 0, which Enemy(...) accepts
Husk == Enemy("Husk", 0, 0, 0, 0, 0)

\* floor-1 enemies (max_health 55: dungeon.py:400-406), weak and strong
Minions == { Enemy("Goblin", h, 55, 4, 5, 10) : h \in {10, 50} }

\* the enemies a behavior decides for: the boss behavior for bosses
EnemiesOf(behavior) ==
    (IF behavior = "boss" THEN Bosses ELSE Minions) \cup {Husk}

DoDecideAction ==
    \E behavior \in Behaviors, enemy_dice \in EnemyDiceLists :
     \E e \in EnemiesOf(behavior) :
       /\ (behavior = "boss" /\ enemy_dice # <<>>) => ai.boss.turn_count < MaxTurns
       /\ \E r \in DecideAction(behavior, ai.boss, e, player.stats, enemy_dice) :
             ai' = AiCall(r.boss, behavior, e, enemy_dice, r.decision, r.via)
       /\ op' = Op("decide_action", 0, None)
       /\ UNCHANGED <<die, ret, n_rolled, n_double, combat_vars, game_vars, enemy_ai>>

NextAi == DoDecideAction

SpecAi == InitAi /\ [][NextAi]_vars

----------------------------------------------------------------------------
(* Two boss fights with the one EnemyAI of the game (enemy_ai): the boss of *)
(* floor 3 first, then the boss of floor 6, each at full health and low.    *)

\* the bosses _generate_boss makes for the floors 3 and 6, fresh and in
\* phase 3
TwoBosses ==
    { Enemy("Grubnosh the Goblin King", h, 290, 16, 240, 150) : h \in {290, 80} }
    \cup { Enemy("Bonecrusher the Skeleton Lord", h, 380, 22, 480, 300) : h \in {380, 100} }

\* EnemyAI.decide_action: the behavior get_behavior returns decides; the
\* second boss is not met before the first is done with
DoEnemyAiDecideAction ==
    \E e \in TwoBosses, enemy_dice \in EnemyDiceLists :
       \E behavior \in {GetBehavior(enemy_ai, e.name,
                                     IF e.max_health = 290 THEN "GOBLIN" ELSE "SKELETON")} :
          /\ ai.enemy.name = "Bonecrusher the Skeleton Lord" => e.name = ai.enemy.name
          /\ ai.boss.turn_count < MaxTurns
          /\ \E r \in DecideAction(behavior, ai.boss, e, player.stats, enemy_dice) :
                ai' = AiCall(r.boss, behavior, e, enemy_dice, r.decision, r.via)
          /\ op' = Op("decide_action", 0, None)
          /\ UNCHANGED <<die, ret, n_rolled, n_double, combat_vars, game_vars, enemy_ai>>

NextBosses == DoEnemyAiDecideAction

SpecBosses == InitAi /\ [][NextBosses]_vars

----------------------------------------------------------------------------
(* The choice of a behavior: EnemyAI.get_behavior, register_behavior and *)
(* the two setters                                                       *)

\* enemy names: plain, boss by a word, boss by a listed name, and a name
\* that holds "king" in lower case
EnemyNames ==
    {"Goblin", "Viking", "Goblin King", "Dark Lord", "Orc Boss"} \cup BossNames

\* behavior keys handed to the setters: two registered ones and one that
\* is not
SetterKeys == {"defensive", "boss", "berserk"}

\* the setter calls that took effect so far
SetsDone(ea) ==
    Cardinality(DOMAIN ea.custom_behaviors)
    + Cardinality({t \in DOMAIN ea.enemy_type_behaviors :
                     Get(NewEnemyAI.enemy_type_behaviors, t, "") # ea.enemy_type_behaviors[t]})

InitBehavior ==
    /\ die = BlankDie
    /\ op = Op("init", 0, None)
    /\ ret = RetOf(die, TRUE, None, NoMsg, <<>>)
    /\ n_rolled = 0
    /\ n_double = 0
    /\ player = NewCharacter(DefaultStats, EmptyDiceSet)
    /\ enemies = <<>>
    /\ combat_result = NoResult
    /\ state = NewGameState
    /\ events = <<>>
    /\ ai = NewAi
    /\ enemy_ai = NewEnemyAI

DoSetCustomBehavior ==
    /\ SetsDone(enemy_ai) < MaxSets
    /\ \E enemy_name \in EnemyNames, behavior_key \in SetterKeys :
          enemy_ai' = SetCustomBehavior(enemy_ai, enemy_name, behavior_key)
    /\ op' = Op("set_custom_behavior", 0, None)
    /\ UNCHANGED <<die, ret, n_rolled, n_double, combat_vars, game_vars, ai>>

DoSetEnemyTypeBehavior ==
    /\ SetsDone(enemy_ai) < MaxSets
    /\ \E enemy_type \in EnemyTypes \cup {NoType}, behavior_key \in SetterKeys :
          enemy_ai' = SetEnemyTypeBehavior(enemy_ai, enemy_type, behavior_key)
    /\ op' = Op("set_enemy_type_behavior", 0, None)
    /\ UNCHANGED <<die, ret, n_rolled, n_double, combat_vars, game_vars, ai>>

\* a behavior registered under a key that is new, or under one that exists
DoRegisterBehavior ==
    /\ \E key \in {"berserk", "boss"} : enemy_ai' = RegisterBehavior(enemy_ai, key)
    /\ op' = Op("register_behavior", 0, None)
    /\ UNCHANGED <<die, ret, n_rolled, n_double, combat_vars, game_vars, ai>>

DoGetBehavior ==
    /\ \E name \in EnemyNames, enemy_type \in EnemyTypes \cup {NoType} :
          enemy_ai' = EnemyAI(enemy_ai.behaviors, enemy_ai.enemy_type_behaviors,
                              enemy_ai.custom_behaviors, name, enemy_type,
                              GetBehavior(enemy_ai, name, enemy_type), TRUE)
    /\ op' = Op("get_behavior", 0, None)
    /\ UNCHANGED <<die, ret, n_rolled, n_double, combat_vars, game_vars, ai>>

NextBehavior ==
    \/ DoSetCustomBehavior
    \/ DoSetEnemyTypeBehavior
    \/ DoRegisterBehavior
    \/ DoGetBehavior

SpecBehavior == InitBehavior /\ [][NextBehavior]_vars

----------------------------------------------------------------------------
(* Properties of the Dice state machine *)

EditOps == {"add_face", "remove_face", "replace_face"}

\* C1: in every state reached by add_face, remove_face and replace_face
\* calls, accepted or rejected, balance_value is the sum of the values of the
\* faces on the die.
C1_BalanceIsSum == die.balance_value = SumValues(die.faces)

\* a face was removed from a die that stays out of balance
C1_Witness ==
    /\ op.name = "remove_face"
    /\ ret.ok
    /\ die.faces # <<>>
    /\ die.balance_value # 0

\* C2: after every face add / remove / replace the imbalance effect and
\* severity are the fixed function of balance_value and size: NONE with
\* severity 0 iff the balance is 0, UNSTABLE iff it is negative, OVERLOADED
\* iff it is positive, and then severity = min(1, |balance| / (2 * size)).
C2_ImbalanceIsFunction ==
    op.name \in EditOps =>
       LET b == die.balance_value
           sev == die.imbalance_severity
       IN /\ (die.imbalance_effect = "NONE" /\ sev.num = 0) <=> (b = 0)
          /\ (die.imbalance_effect = "UNSTABLE") <=> (b < 0)
          /\ (die.imbalance_effect = "OVERLOADED") <=> (b > 0)
          /\ b # 0 =>
               IF Abs(b) >= 2 * die.size
               THEN sev.num = sev.den
               ELSE sev.num * (2 * die.size) = Abs(b) * sev.den

\* a replacement leaves balance -2 on a die of size 2: UNSTABLE, severity 2/4
C2_Witness ==
    /\ op.name = "replace_face"
    /\ ret.ok
    /\ die.size = 2
    /\ die.balance_value = -2
    /\ die.imbalance_effect = "UNSTABLE"
    /\ die.imbalance_severity.num * 4 = 2 * die.imbalance_severity.den

\* C3: a die never holds more faces than its size, however it was built, and
\* add_face on a full die returns False and leaves the die as it was.
C3_FacesWithinSize ==
    /\ [](Len(die.faces) <= die.size)
    /\ [][(op'.name = "add_face" /\ Len(die.faces) >= die.size)
             => (~ret'.ok /\ die' = die)]_vars

\* C4: roll() on any die with cooldown k > 0 leaves cooldown k - 1 and
\* returns no face.
C4_CooldownAnyDie ==
    [][(op'.name = "roll" /\ die.cooldown > 0)
          => (die'.cooldown = die.cooldown - 1 /\ ret'.face = None)]_vars

\* C4 (amended): roll() on a die that has at least one face and cooldown
\* k > 0 leaves cooldown k - 1 and returns no face; on a die without faces
\* the cooldown stays k.
C4_CooldownWithFaces ==
    [][(op'.name = "roll" /\ die.cooldown > 0)
          => /\ ret'.face = None
             /\ die.faces # <<>> => die'.cooldown = die.cooldown - 1
             /\ die.faces = <<>> => die'.cooldown = die.cooldown]_vars

\* a die with faces was rolled at cooldown 2 and is now at cooldown 1
C4_Witness ==
    /\ op.name = "roll"
    /\ die.faces # <<>>
    /\ ret.face = None
    /\ ret.message.text = "on cooldown"
    /\ ret.message.k = 2
    /\ die.cooldown = 1

\* C5: roll() on a die with no faces returns no face and leaves xp, level
\* and xp_to_next_level unchanged, whatever the cooldown.
C5_EmptyDieRoll ==
    [][(op'.name = "roll" /\ die.faces = <<>>)
          => /\ ret'.face = None
             /\ die'.xp = die.xp
             /\ die'.level = die.level
             /\ die'.xp_to_next_level = die.xp_to_next_level]_vars

\* an empty die on cooldown was rolled
C5_Witness ==
    /\ op.name = "roll"
    /\ die.faces = <<>>
    /\ die.cooldown > 0
    /\ ret.face = None
    /\ ret.message.text = "Die has no faces!"

\* xp a die of the given level has spent on level-ups: the thresholds start
\* at 100 and grow by half, rounded down
RECURSIVE XpSpent(_, _)
XpSpent(level, threshold) ==
    IF level <= 1 THEN 0
    ELSE threshold + XpSpent(level - 1, (threshold * 3) \div 2)

XpEarned(d) == d.xp + XpSpent(d.level, 100)

\* C6: every roll() that returns a face awards exactly 10 xp: after n such
\* rolls the xp earned, level-ups included, is 10 * n.
C6_TenXpPerFace == XpEarned(die) = 10 * n_rolled

\* C6 (amended): every roll() that returns a face on the standard path awards
\* exactly 10 xp and a double roll awards none: the xp earned is 10 times the
\* number of standard rolls that returned a face.
C6_TenXpPerStandardRoll == XpEarned(die) = 10 * (n_rolled - n_double)

\* a die that rolled double once and levelled up on its standard rolls
C6_Witness ==
    /\ n_double >= 1
    /\ n_rolled - n_double >= 11
    /\ die.level >= 2

\* C7: from xp = 0 and the default threshold, after any sequence of roll()
\* calls 0 <= xp < xp_to_next_level, and a roll that crosses the threshold
\* raises level by exactly 1, subtracts the old threshold from xp and sets
\* the threshold to trunc(1.5 * old threshold).
C7_XpBelowThreshold ==
    /\ [](0 <= die.xp /\ die.xp < die.xp_to_next_level)
    /\ [][(op'.name = "roll" /\ ret'.face # None /\ ret'.effects = <<>>
             /\ die.xp + 10 >= die.xp_to_next_level)
            => /\ die'.level = die.level + 1
               /\ die'.xp = die.xp + 10 - die.xp_to_next_level
               /\ 2 * die'.xp_to_next_level <= 3 * die.xp_to_next_level
               /\ 3 * die.xp_to_next_level < 2 * die'.xp_to_next_level + 2]_vars

\* the die crossed 100, 150 and 225: level 4, threshold trunc(337.5) = 337,
\* and 5 xp carried over the last crossing
C7_Witness ==
    /\ op.name = "roll"
    /\ die.level = 4
    /\ die.xp_to_next_level = 337
    /\ die.xp = 5

----------------------------------------------------------------------------
(* Properties of the combat state machine *)

\* the last call was a player_turn that resolved a face of the category
Resolved(o, category) == o.name = "player_turn" /\ o.face.category = category

\* C8: a resolved COMBAT face deals floor(physical_damage * m) + face.value
\* with m = 1.5 for a "Heavy" name, 0.8 for a "Quick" name and 1.0 otherwise,
\* and floor(that * crit_damage) on a critical hit.
C8_DamageIsFloor ==
    Resolved(op, "COMBAT") =>
       LET m == IF Contains("Heavy", op.face.name) THEN Frac(3, 2)
                ELSE IF Contains("Quick", op.face.name) THEN Frac(4, 5)
                ELSE Frac(1, 1)
           plain == FloorDiv(player.stats.physical_damage * m.num, m.den)
                      + op.face.value
           crit == FloorDiv(plain * player.stats.crit_damage.num,
                            player.stats.crit_damage.den)
       IN combat_result.damage_dealt =
             IF combat_result.message.text = "CRITICAL HIT!" THEN crit ELSE plain

\* C9: after any player_turn and enemy_turn calls no health is negative, and
\* an attack reports target_defeated exactly when it left its target at 0.
C9_HealthNeverNegative ==
    /\ player.stats.health >= 0
    /\ \A i \in 1..Len(enemies) : enemies[i].health >= 0
    /\ Resolved(op, "COMBAT") =>
          (combat_result.target_defeated <=> enemies[op.target + 1].health = 0)
    /\ (op.name = "enemy_turn" /\ combat_result.success) =>
          (combat_result.target_defeated <=> player.stats.health = 0)

\* the last call was a player_turn that resolved a healing face
Healed(o) == Resolved(o, "EFFECT") /\ Contains("Heal", o.face.name)

\* the amount the face nominally heals
NominalHeal(face) ==
    IF Contains("Major", face.name) THEN 30 + 2 * face.value ELSE 15 + face.value

\* C10: after a resolved "Heal" face the player's health does not exceed
\* max_health, and healing_done is the change of health, which the nominal
\* amount (30 + 2*value for "Major", else 15 + value) only bounds.
C10_HealingIsClamped ==
    [][Healed(op')
         => /\ player'.stats.health <= player'.stats.max_health
            /\ combat_result'.healing_done
                  = player'.stats.health - player.stats.health
            /\ combat_result'.healing_done <= NominalHeal(op'.face)]_vars

\* a Minor Heal (nominal 16) that max_health cut short
C10_Witness ==
    /\ Healed(op)
    /\ op.face.name = "Minor Heal"
    /\ combat_result.healing_done > 0
    /\ combat_result.healing_done < NominalHeal(op.face)
    /\ player.stats.health = player.stats.max_health

\* C11: player_turn called with an empty enemy list or a target_index outside
\* [0, len(enemies)) returns the failed result "Invalid target!" and rolls no
\* die: the player (stats and every die's cooldown, xp and level) and the
\* enemies are unchanged.
C11_InvalidTargetNoRoll ==
    [][(op'.name = "player_turn" /\ InvalidTarget(enemies, op'.target)) =>
          /\ ~combat_result'.success
          /\ combat_result'.message.text = "Invalid target!"
          /\ player' = player
          /\ enemies' = enemies]_vars

\* an out-of-range target on a roster that has enemies was refused
C11_Witness ==
    /\ op.name = "player_turn"
    /\ enemies # <<>>
    /\ InvalidTarget(enemies, op.target)
    /\ combat_result.message.text = "Invalid target!"

\* the last call was a player_turn with a valid target whose roll gave no face
NoFace(o, es) ==
    o.name = "player_turn" /\ o.face = None /\ ~InvalidTarget(es, o.target)

\* two dice that differ at most in their cooldown
SameButCooldown(d1, d2) == [d1 EXCEPT !.cooldown = 0] = [d2 EXCEPT !.cooldown = 0]

\* the dice of q that are not the dice of p
ChangedDice(p, q) ==
    UNION { { <<t, i>> : i \in {k \in 1..Len(p.dice_set[t]) :
                                    p.dice_set[t][k] # q.dice_set[t][k]} } :
              t \in DiceTypes }

\* C12: when the roll of player_turn yields no face (cooldown, no faces, die
\* index out of range) the result is a failure carrying the roll's message,
\* and nothing changes but the cooldown of the one rolled die: player stats,
\* player xp and level, every die's xp and level, and the enemies are kept.
C12_NoFaceOnlyCooldown ==
    [][NoFace(op', enemies) =>
          /\ ~combat_result'.success
          /\ combat_result'.message.text \in
                {"on cooldown", "Die has no faces!", "Invalid die selection"}
          /\ player'.stats = player.stats
          /\ player'.level = player.level
          /\ player'.xp = player.xp
          /\ player'.xp_to_next_level = player.xp_to_next_level
          /\ enemies' = enemies
          /\ \A t \in DiceTypes :
                /\ Len(player'.dice_set[t]) = Len(player.dice_set[t])
                /\ \A i \in 1..Len(player.dice_set[t]) :
                      SameButCooldown(player'.dice_set[t][i], player.dice_set[t][i])
          /\ Cardinality(ChangedDice(player, player')) <= 1]_vars

\* the die on cooldown was rolled and its cooldown ran down
C12_Witness ==
    /\ NoFace(op, enemies)
    /\ combat_result.message.text = "on cooldown"
    /\ player.dice_set["COMBAT"][2].cooldown = SpareDie.cooldown - 1

\* the last call was a player_turn that resolved a face of one of the
\* categories _process_player_action only acknowledges
Acknowledged(o, categories) ==
    o.name = "player_turn" /\ o.face # None /\ o.face.category \in categories

\* C13 as stated: resolving a TRAIT, UTILITY or META face returns success and
\* mutates neither the player's stats nor any enemy.
C13_OtherFaceNoMutation ==
    [][Acknowledged(op', {"TRAIT", "UTILITY", "META"}) =>
          /\ combat_result'.success
          /\ player'.stats = player.stats
          /\ enemies' = enemies]_vars

\* C13 amended: resolving a UTILITY or META face returns success and mutates
\* neither the player's stats nor any enemy; resolving a TRAIT face returns
\* success and mutates no enemy, and the player's stats are the stats
\* apply_trait(face.name, face.value) gives, applied by roll_die.
C13_OnlyTraitMutatesStats ==
    [][/\ Acknowledged(op', {"UTILITY", "META"}) =>
             /\ combat_result'.success
             /\ player'.stats = player.stats
             /\ enemies' = enemies
       /\ Acknowledged(op', {"TRAIT"}) =>
             /\ combat_result'.success
             /\ player'.stats = ApplyTrait(player.stats, op'.face.name, op'.face.value)
             /\ enemies' = enemies]_vars

\* a Strength face was resolved and raised the physical damage
C13_Witness ==
    /\ Acknowledged(op, {"TRAIT"})
    /\ op.face.name = "Strength"
    /\ combat_result.success
    /\ player.stats.physical_damage = DefaultStats.physical_damage + op.face.value

\* C14: when the dodge check of enemy_turn succeeds the result has
\* success = False, damage_dealt = 0 and target_defeated = False, and the
\* player and the enemies are unchanged.
C14_DodgeNoMutation ==
    [][(op'.name = "enemy_turn" /\ op'.dodged) =>
          /\ ~combat_result'.success
          /\ combat_result'.damage_dealt = 0
          /\ ~combat_result'.target_defeated
          /\ player' = player
          /\ enemies' = enemies]_vars

\* an attack was dodged by a player who is alive
C14_Witness ==
    /\ op.name = "enemy_turn"
    /\ op.dodged
    /\ ~combat_result.success
    /\ player.stats.health > 0

\* the last call was a handle_combat_turn made while in combat
Round(o, evs) == o.name = "handle_combat_turn" /\ evs[1].kind # "error"

\* the kinds of the events of a round, in order
Kinds(evs) == [i \in 1..Len(evs) |-> evs[i].kind]

\* the events of the enemies' part of a round that followed n events of the
\* player's part
EnemyPart(evs, n) == SubSeq(evs, n + 1, Len(evs))

\* the enemy turns among the events evs
TurnsOf(evs) == SelectSeq(evs, LAMBDA e : e.kind = "enemy_turn")

\* C15: in one handle_combat_turn round the player's action and all of its
\* consequences (removal of a defeated target, its reward) come before any
\* enemy turn; the enemies left in the roster then act once each in roster
\* order; the enemy the player defeated does not act; and no enemy acts
\* after the attack that defeats the player.
C15_RoundOrder ==
    Round(op, events) =>
       LET n == IF combat_result.target_defeated THEN 3 ELSE 1
           rest == EnemyPart(events, n)
           turns == TurnsOf(rest)
       IN /\ SubSeq(Kinds(events), 1, n) =
                IF combat_result.target_defeated
                THEN <<"player_turn", "remove", "reward">>
                ELSE <<"player_turn">>
          /\ \A j \in 1..Len(rest) : rest[j].kind \in {"enemy_turn", "player_defeated"}
          /\ \A j \in 1..Len(turns) :
                turns[j].index = j - 1 /\ turns[j].name = enemies[j].name
          /\ combat_result.target_defeated =>
                \A j \in 1..Len(turns) : turns[j].name # events[2].name
          /\ \A j \in 1..Len(rest) :
                rest[j].kind = "player_defeated" =>
                   j = Len(rest) /\ j > 1 /\ rest[j - 1].kind = "enemy_turn"
          /\ (~state.game_over /\ state.in_combat) => Len(turns) = Len(enemies)
          /\ state.game_over <=> (rest # <<>> /\ rest[Len(rest)].kind = "player_defeated")

\* the player defeated the second enemy of two, got the reward, and the
\* first enemy then had its turn
C15_Witness ==
    /\ Round(op, events)
    /\ combat_result.target_defeated
    /\ events[2] = Event("remove", 1, "Skeleton")
    /\ state.gold = Skeleton.gold_reward
    /\ Len(events) = 4
    /\ events[4] = Event("enemy_turn", 0, "Goblin")

\* C16: in_combat is set when a room with enemies is entered and is cleared
\* on every path that ends the fight: the last enemy defeated, a flee that
\* succeeds, and the player defeated - so the game is never over with
\* in_combat still set.
C16_CombatFlagCleared ==
    /\ [](state.game_over => ~state.in_combat)
    /\ [][/\ (op'.name = "handle_room" /\ state.room_enemies # <<>>) => state'.in_combat
          /\ (state.in_combat /\ enemies' = <<>>) => ~state'.in_combat]_vars

\* C17: after every handle_combat_turn call every enemy still in
\* combat_enemies has health > 0, and a round that defeats its target
\* removes exactly the targeted enemy from the roster.
C17_DefeatedEnemyRemoved ==
    /\ [](op.name = "handle_combat_turn" =>
             \A i \in 1..Len(enemies) : enemies[i].health > 0)
    /\ [][(Round(op', events') /\ combat_result'.target_defeated) =>
             /\ Len(enemies') = Len(enemies) - 1
             /\ enemies' = Pop(enemies, op'.target)
             /\ events'[2].name = enemies[op'.target + 1].name]_vars

\* the second enemy of two was defeated and the first is what is left
C17_Witness ==
    /\ Round(op, events)
    /\ combat_result.target_defeated
    /\ op.target = 1
    /\ Len(enemies) = 1
    /\ enemies[1].name = "Goblin"
    /\ enemies[1].health > 0

\* the last call was a BossBehavior.decide_action with dice to choose from
BossCall(a) == a.behavior = "boss" /\ a.enemy_dice # <<>>

\* the abilities a boss b holds as used in the phase new_phase when the call
\* starts: none when the call enters the phase
UsedInPhase(b, new_phase) ==
    IF b.phase = new_phase THEN b.phase_abilities_used ELSE {}

\* C18: when BossBehavior.decide_action is called for an enemy in phase 3
\* (health fraction < 0.3) and an available die has an "Ultimate" face of
\* value >= 4 not used in the current phase, the decision is such a die
\* (and it is then held as used).
C18_UltimateSelected ==
    [][(BossCall(ai') /\ FracLt(HealthPercentage(ai'.enemy), Frac(3, 10))) =>
          LET used == UsedInPhase(ai.boss, 3)
              fresh == {n \in 1..Len(ai'.enemy_dice) : LET d == ai'.enemy_dice[n] IN HasUltimate(d) /\ UltimateKey(d) \notin used}
          IN fresh # {} =>
                \E i \in fresh :
                   /\ ai'.decision = Address(ai'.enemy_dice[i])
                   /\ UltimateKey(ai'.enemy_dice[i]) \in ai'.boss.phase_abilities_used]_vars

\* in phase 3 the first die's ultimate was already used and the second
\* die, whose ultimate was not, is the decision
C18_Witness ==
    /\ BossCall(ai)
    /\ ai.boss.phase = 3
    /\ Len(ai.enemy_dice) = 2
    /\ HasUltimate(ai.enemy_dice[1])
    /\ HasUltimate(ai.enemy_dice[2])
    /\ ai.decision = Address(ai.enemy_dice[2])
    /\ ai.via = "ultimate"

\* C19: once BossBehavior has selected an "Ultimate" die in phase 3, no
\* later decide_action call made while the boss stays in phase 3 returns
\* that die again.
C19_UltimateNotReselected ==
    [][(BossCall(ai') /\ ai.boss.phase = 3 /\ ai'.boss.phase = 3) =>
          \A i \in 1..Len(ai'.enemy_dice) :
             UltimateKey(ai'.enemy_dice[i]) \in ai.boss.phase_abilities_used =>
                ai'.decision # Address(ai'.enemy_dice[i])]_vars

\* C20: each of the five behaviors, called with an empty enemy_dice, returns
\* the safe default (COMBAT, 0); the BossBehavior object (turn counter,
\* phase, used abilities) is left as it was.
C20_EmptyDiceSafeDefault ==
    [][(op'.name = "decide_action" /\ ai'.enemy_dice = <<>>) =>
          /\ ai'.decision = SafeDefault
          /\ ai'.boss = ai.boss]_vars

\* a boss that has counted turns and used an ability was asked with no dice
C20_Witness ==
    /\ op.name = "decide_action"
    /\ ai.behavior = "boss"
    /\ ai.enemy_dice = <<>>
    /\ ai.decision = SafeDefault
    /\ ai.boss.turn_count > 0
    /\ ai.boss.phase_abilities_used # {}

----------------------------------------------------------------------------
\* C21: no core operation propagates a fault: every decide_action call
\* returns a decision, also for an enemy or a player whose max_health is 0.
C21_NoFault == ai.decision # ZeroDivisionError

\* the default behavior of each enemy type, as listed
ListedDefault(t) ==
    CASE t \in {"GOBLIN", "ORC", "MINOTAUR"} -> "aggressive"
      [] t = "SKELETON" -> "random"
      [] t \in {"ZOMBIE", "SLIME"} -> "defensive"
      [] t = "GHOST" -> "tactical"
      [] t = "DRAGON" -> "boss"
      [] OTHER -> "random"

\* the enemy_type_behaviors of an EnemyAI no setter has changed
TypeDefaultsKept(ea) ==
    \A t \in EnemyTypes \cup {NoType} :
       Get(ea.enemy_type_behaviors, t, "random") = ListedDefault(t)

\* C22: get_behavior returns the override set for the enemy's name if there
\* is one, also for a boss-named enemy; otherwise Boss if the name contains
\* "Boss", "Lord", "King" or a listed boss name; otherwise the behavior of
\* the enemy's type, "random" for a type that has none, which is the listed
\* default as long as no setter changed the type's entry.
C22_BehaviorPrecedence ==
    op.name = "get_behavior" =>
       LET ea == enemy_ai
           named == \E w \in {"Boss", "Lord", "King", "Grubnosh", "Bonecrusher",
                              "Grimfang", "Flamescale"} : Contains(w, ea.name)
       IN /\ ea.name \in DOMAIN ea.custom_behaviors =>
                ea.key = ea.custom_behaviors[ea.name]
          /\ (ea.name \notin DOMAIN ea.custom_behaviors /\ named) => ea.key = "boss"
          /\ (ea.name \notin DOMAIN ea.custom_behaviors /\ ~named) =>
                /\ ea.key = Get(ea.enemy_type_behaviors, ea.enemy_type, "random")
                /\ (Get(ea.enemy_type_behaviors, ea.enemy_type, "random")
                      = ListedDefault(ea.enemy_type)
                    \/ ~TypeDefaultsKept(ea))

\* an enemy with a listed boss name was given an override, and get_behavior
\* returned the override
C22_Witness ==
    /\ op.name = "get_behavior"
    /\ enemy_ai.name = "Grimfang"
    /\ enemy_ai.name \in DOMAIN enemy_ai.custom_behaviors
    /\ enemy_ai.key = "defensive"

----------------------------------------------------------------------------
\* C23: a round submitted to handle_combat_turn during a fight with a
\* target index or a die index out of range is reported as failed and
\* changes nothing: the player, the enemies and the flags are as before
\* the call, so no enemy has attacked.
C23_InvalidRoundNoMutation ==
    [][(/\ op'.name = "handle_combat_turn"
        /\ state.in_combat
        /\ \/ InvalidTarget(enemies, op'.target)
           \/ combat_result'.message.text = "Invalid die selection") =>
          /\ ~combat_result'.success
          /\ player' = player
          /\ enemies' = enemies
          /\ state' = state]_vars

----------------------------------------------------------------------------
----------------------------------------------------------------------------
\* level-ups applied while xp >= xp_to_next_level
RECURSIVE WhileLevelUp(_)
WhileLevelUp(d) ==
    IF d.xp >= d.xp_to_next_level /\ d.xp_to_next_level > 0
    THEN WhileLevelUp(LevelUp(d)) ELSE d

\* C25: add_xp(amount), on a die with 0 <= xp < xp_to_next_level, applies
\* level-ups repeatedly while xp >= xp_to_next_level: the die ends with
\* 0 <= xp < xp_to_next_level and its level raised once per threshold
\* crossed.
C25_AddXpLevelsRepeatedly ==
    [][(op'.name = "add_xp" /\ 0 <= die.xp /\ die.xp < die.xp_to_next_level) =>
          /\ 0 <= die'.xp
          /\ die'.xp < die'.xp_to_next_level
          /\ die' = WhileLevelUp([die EXCEPT !.xp = @ + op'.index])]_vars

----------------------------------------------------------------------------
\* C26: roll() takes the double roll only on an UNSTABLE die; a balanced or
\* OVERLOADED die that returns a face returns it with the message
\* "Normal roll." and no effect tag. A roll resolved by the double roll
\* carries the tag "Unstable: Double Roll" and leaves the die's xp and
\* level as they were; a roll resolved on the default path is awarded xp.
C26_DoubleRollOnlyUnstable ==
    [][(op'.name = "roll" /\ ret'.face # None) =>
          /\ ret'.message.text \in {"UNSTABLE", "Normal roll."}
          /\ ret'.message.text = "UNSTABLE" =>
                /\ die.imbalance_effect = "UNSTABLE"
                /\ ret'.effects = <<"Unstable: Double Roll">>
                /\ die'.xp = die.xp
                /\ die'.level = die.level
          /\ die.imbalance_effect # "UNSTABLE" => ret'.message.text = "Normal roll."
          /\ ret'.message.text = "Normal roll." =>
                /\ ret'.effects = <<>>
                /\ <<die'.xp, die'.level>> # <<die.xp, die.level>>]_vars

\* an OVERLOADED die, whose severity test could have succeeded, rolled a face
C26_Witness ==
    /\ op.name = "roll"
    /\ ret.face # None
    /\ die.imbalance_effect = "OVERLOADED"
    /\ ret.message.text = "Normal roll."

----------------------------------------------------------------------------
\* C27: a double roll that drew the faces first and second returns the one
\* with the strictly lower value, and the first when the values are equal.
C27_LowerOrFirst ==
    [][(op'.name = "roll" /\ ret'.message.text = "UNSTABLE") =>
          \E c1, c2 \in 1..Len(die.faces) :
             LET first == die.faces[c1]
                 second == die.faces[c2]
             IN /\ first.name = ret'.message.roll1
                /\ second.name = ret'.message.roll2
                /\ ret'.face = IF second.value < first.value THEN second ELSE first]_vars

----------------------------------------------------------------------------
\* the status an effect face of that name applies
StatusOf(face_name) ==
    IF Contains("Bleed", face_name) THEN "Bleeding"
    ELSE IF Contains("Poison", face_name) THEN "Poisoned"
    ELSE "Stunned"

\* C28: when player_turn resolves an EFFECT face whose name holds Bleed,
\* Poison or Stun and not Heal, the result succeeds with status_applied
\* Bleeding, Poisoned or Stunned and the duration 3, 3 or 1 in its
\* message, and the enemies and the status-effect map of the player are
\* as they were.
C28_StatusMessageOnly ==
    [][(/\ op'.name = "player_turn"
        /\ op'.face.category = "EFFECT"
        /\ ~Contains("Heal", op'.face.name)
        /\ \E k \in {"Bleed", "Poison", "Stun"} : Contains(k, op'.face.name))
       => /\ combat_result'.success
          /\ combat_result'.status_applied = StatusOf(op'.face.name)
          /\ combat_result'.message =
                Msg("applies", IF StatusOf(op'.face.name) = "Stunned" THEN 1 ELSE 3,
                    op'.face.name, StatusOf(op'.face.name))
          /\ enemies' = enemies
          /\ player'.stats.status_effects = player.stats.status_effects]_vars

\* a Stunning Blow resolved by a character who is poisoned already
C28_Witness ==
    /\ op.name = "player_turn"
    /\ op.face.name = "Stunning Blow"
    /\ combat_result.status_applied = "Stunned"
    /\ DOMAIN player.stats.status_effects = {"Poisoned"}
    /\ enemies # <<>>

----------------------------------------------------------------------------
\* some enemy of the list is alive
SomeAlive(es) == \E i \in 1..Len(es) : es[i].health > 0

\* C29: a flee attempt either succeeds (in_combat cleared, the combat list
\* emptied, the player as before) or fails: the player loses 5 to 15 health,
\* not below 0, and the session goes on unless the health reached 0, where
\* game_over is set and in_combat cleared. No other action ends a session
\* while the player and an enemy are alive.
C29_FleeOnlyExit ==
    [][/\ op'.name = "run_away" =>
           \/ /\ ~state'.in_combat
              /\ state'.game_over = state.game_over
              /\ enemies' = <<>>
              /\ player' = player
           \/ /\ \E damage \in 5..15 :
                    player'.stats.health = Max(0, player.stats.health - damage)
              /\ enemies' = enemies
              /\ IF player'.stats.health = 0
                 THEN state'.game_over /\ ~state'.in_combat
                 ELSE state'.in_combat /\ ~state'.game_over
       /\ (op'.name # "run_away" /\ state.in_combat /\ ~state'.in_combat) =>
             (player'.stats.health <= 0 \/ ~SomeAlive(enemies'))]_vars

\* a failed escape that cost the player the last of the health
C29_Witness ==
    /\ op.name = "run_away"
    /\ events # <<>>
    /\ events[1].kind = "escape_failed"
    /\ player.stats.health = 0
    /\ state.game_over
    /\ ~state.in_combat
    /\ SomeAlive(enemies)

----------------------------------------------------------------------------
\* the phase of the health fraction health / max_health: 3 below 0.3,
\* 2 below 0.6, else 1
PhaseOf(e) ==
    IF e.health * 10 < 3 * e.max_health THEN 3
    ELSE IF e.health * 10 < 6 * e.max_health THEN 2
    ELSE 1

\* C30: after every decide_action call of the boss behavior with a
\* non-empty dice list the turn counter has grown by exactly 1 and the
\* phase is the one of the health fraction of the enemy; the set of used
\* abilities is emptied (and holds at most what the call itself added)
\* on the calls where the phase changes, and only grows on the others.
C30_BossStateTracksHealth ==
    [][(op'.name = "decide_action" /\ ai'.behavior = "boss" /\ ai'.enemy_dice # <<>>)
       => /\ ai'.boss.turn_count = ai.boss.turn_count + 1
          /\ ai'.boss.phase = PhaseOf(ai'.enemy)
          /\ IF ai'.boss.phase # ai.boss.phase
             THEN Cardinality(ai'.boss.phase_abilities_used) <= 1
             ELSE ai.boss.phase_abilities_used \subseteq ai'.boss.phase_abilities_used]_vars

----------------------------------------------------------------------------
\* C31: between two phase transitions of the boss the healing rule of
\* phase 2 fires at most once and the Ultimate rule of phase 3 at most once
\* per (dice type, dice index): a rule fires only for a key that is not
\* held as used in the phase, the key is held as used from then on, and it
\* stays held while the phase stays the same.
C31_PriorityOncePerPhase ==
    [][BossCall(ai') =>
          LET used == UsedInPhase(ai.boss, ai'.boss.phase)
              key == <<"ultimate", ai'.decision[1], ai'.decision[2]>>
          IN /\ ai'.via = "heal" =>
                   /\ ai'.boss.phase = 2
                   /\ HealKey \notin used
                   /\ HealKey \in ai'.boss.phase_abilities_used
             /\ ai'.via = "ultimate" =>
                   /\ ai'.boss.phase = 3
                   /\ key \notin used
                   /\ key \in ai'.boss.phase_abilities_used
             /\ used \subseteq ai'.boss.phase_abilities_used]_vars

\* a phase-2 call that had a healing die to choose but did not choose it by
\* the healing rule, which had fired in the phase
C31_Witness ==
    /\ BossCall(ai)
    /\ ai.boss.phase = 2
    /\ ai.via \notin {"heal", "raise"}
    /\ HealKey \in ai.boss.phase_abilities_used
    /\ \E n \in 1..Len(ai.enemy_dice) : \E i \in 1..Len(ai.enemy_dice[n].faces) :
          Contains("Heal", ai.enemy_dice[n].faces[i].name)

----------------------------------------------------------------------------
\* C32: on a boss call where no priority rule of the phase fires and the
\* turn counter, after its increment, is a multiple of 3, the decision is
\* the first SPECIAL die of the list if there is one; on every other call
\* without a priority rule the decision is one TacticalBehavior makes.
C32_ThirdTurnSpecial ==
    [][(BossCall(ai') /\ ai'.via \notin {"heal", "ultimate"}) =>
          LET special == {n \in 1..Len(ai'.enemy_dice) : ai'.enemy_dice[n].dice_type = "SPECIAL"}
          IN IF ai'.boss.turn_count % 3 = 0 /\ special # {}
             THEN ai'.decision = Address(ai'.enemy_dice[Least(special)])
             ELSE ai'.decision \in TacticalBehavior(ai'.enemy, player.stats, ai'.enemy_dice)]_vars

----------------------------------------------------------------------------
\* the keys the two tables of an EnemyAI hold
StoredKeys(ea) ==
    {ea.custom_behaviors[n] : n \in DOMAIN ea.custom_behaviors}
    \cup {ea.enemy_type_behaviors[t] : t \in DOMAIN ea.enemy_type_behaviors}

----------------------------------------------------------------------------
\* C34: for each of the five behaviors and every non-empty list of
\* available dice, decide_action returns the (dice_type, dice_index) of
\* one of the dice of the list.
C34_DecisionIsAvailableDie ==
    (op.name = "decide_action" /\ ai.enemy_dice # <<>>) =>
       \E n \in 1..Len(ai.enemy_dice) : ai.decision = Address(ai.enemy_dice[n])

----------------------------------------------------------------------------
\* C35: after any sequence of player turns the health of every enemy is
\* within 0..max_health and the CombatResult has damage_dealt >= 0, for
\* every face value, those of negative COMBAT faces too, and every
\* physical_damage >= 1.
C35_DamageNeverNegative ==
    /\ \A i \in 1..Len(enemies) :
          enemies[i].health >= 0 /\ enemies[i].health <= enemies[i].max_health
    /\ combat_result.damage_dealt >= 0

----------------------------------------------------------------------------
\* the game is at the end of a floor with nothing left to do there: on its
\* last room, from which no path leads on, with no fight going on and no
\* enemy left to fight
AtEndOfFloor ==
    /\ ~state.game_over
    /\ ~state.in_combat
    /\ state.current_room_index = Len(state.rooms) - 1
    /\ state.room_enemies = <<>>

\* C36: progress through the dungeon is possible: every generated floor,
\* the third ones that end in a boss room too, gives a way to the next
\* floor, so a game is never at the end of a floor without an exit to take
\* there, and the floors 1 to 8 are passed and victory is reached on the
\* final floor.
C36_EveryFloorHasWayOn ==
    AtEndOfFloor => state.rooms[state.current_room_index + 1] = "EXIT"

\* no game leaves floor 3, and none ends in victory
StuckOnThirdFloor == state.floor_level <= 3 /\ ~state.victory

----------------------------------------------------------------------------
\* C37: the boss state is per enemy: the decision EnemyAI.decide_action
\* makes for a boss is the same whether or not decide_action was called for
\* another boss before, so the first decision made for an enemy is one a
\* BossBehavior that has decided nothing yet makes.
C37_BossStatePerEnemy ==
    [][(BossCall(ai') /\ ai'.enemy.name # ai.enemy.name) =>
          ai'.decision \in {r.decision :
                              r \in BossBehavior(NewBoss, ai'.enemy, player.stats,
                                                 ai'.enemy_dice)}]_vars

----------------------------------------------------------------------------
\* C38: a die's cooldown is never negative, and a roll of a die with a face
\* and cooldown k > 0 returns no face and leaves cooldown k - 1, while a roll
\* with cooldown 0 returns a face and leaves the cooldown at 0: a cooldown
\* of k expires after exactly k rolls, and roll k + 1 returns a face.
C38_CooldownExpires ==
    /\ [](die.cooldown >= 0)
    /\ [][(op'.name = "roll" /\ die.faces # <<>>) =>
            IF die.cooldown > 0
            THEN ret'.face = None /\ die'.cooldown = die.cooldown - 1
            ELSE ret'.face # None /\ die'.cooldown = 0]_vars

\* the last roll of a cooldown was made: no face, and the die is ready
C38_Witness ==
    /\ op.name = "roll"
    /\ die.faces # <<>>
    /\ ret.face = None
    /\ ret.message = Msg("on cooldown", 1, "", "")
    /\ die.cooldown = 0

----------------------------------------------------------------------------
\* all the xp add_xp gave the character: Character.level_up takes the
\* threshold off, and the thresholds are those of a die
XpGained(p) == XpSpent(p.level, 100) + p.xp

\* the roster as names and rewards, whatever the health
Rewards(es) ==
    [i \in 1..Len(es) |-> <<es[i].name, es[i].gold_reward, es[i].xp_reward>>]

\* C39: in a combat session the gold_reward and xp_reward of an enemy are
\* granted once, in the handle_combat_turn call that defeats it and removes
\* it from the roster; any other step (a round without a defeat, a flee, a
\* skipped turn, the defeat of the player, a room shown) grants no gold and
\* no xp and removes no enemy.
C39_RewardOncePerDefeat ==
    [][IF op'.name = "handle_combat_turn" /\ state.in_combat
          /\ combat_result'.target_defeated
       THEN /\ op'.target + 1 \in 1..Len(enemies)
            /\ Rewards(enemies') = Pop(Rewards(enemies), op'.target)
            /\ Rewards(state'.room_enemies) = Rewards(enemies')
            /\ state'.gold = state.gold + enemies[op'.target + 1].gold_reward
            /\ XpGained(player') = XpGained(player) + enemies[op'.target + 1].xp_reward
       ELSE /\ state'.gold = state.gold
            /\ XpGained(player') = XpGained(player)
            /\ Rewards(state'.room_enemies) = Rewards(state.room_enemies)]_vars

\* the player fled from the enemies left after one was defeated and paid for
C39_Witness ==
    /\ op.name = "run_away"
    /\ ~state.in_combat
    /\ state.gold > 0
    /\ XpGained(player) > 0
    /\ enemies # <<>>

====
